---- MODULE Spec2Model ----
(***************************************************************************)
(* Model of the authentication / authorization layer of the Miro MCP       *)
(* server: the pending-code store (oauth/code_storage.rs), the OAuth proxy *)
(* endpoints (oauth/endpoints.rs) with the cookie cipher and the client    *)
(* registry, and the bearer token validator (auth/token_validator.rs).     *)
(*                                                                         *)
(* The specifications share one clock, among them:                                   *)
(*   SpecCodeStorage  store / take / cleanup_expired on one CodeStorage    *)
(*   SpecOAuth        register, authorize, callback and token handlers     *)
(*   SpecValidator    concurrent validate_token calls on one validator     *)
(***************************************************************************)
EXTENDS Naturals, Integers, Sequences, FiniteSets, TLC

VARIABLES
    now,            \* wall clock, seconds (Utc::now / SystemTime::now)
    store,          \* CodeStorage.store: code -> PendingCodeExchange (+ ghost sid)
    cs_seq,         \* ghost: number of store() calls so far
    cs_returned,    \* ghost: the entries take() has returned, [sid, code] each
    cs_last,        \* ghost: the last CodeStorage operation and its result
                    \* (for cleanup_expired, the `removed` count it logs)
    clients,        \* ClientRegistry.clients: client_id -> RegisteredClient
    jar,            \* the cookies the server has set so far (held by user agents)
    oa_n,           \* authorizations started (state cookies issued)
    oa_req,         \* ghost: the last request an OAuth endpoint handled
    oa_resp,        \* ghost: the response it gave
    oa_called,      \* ghost: that request made a call to the upstream token endpoint
    upstream_log,   \* ghost: the calls made to the upstream token endpoint
    dcr_issued,     \* ghost: the credentials that registration responses gave out
    oa_issued,      \* ghost: the state cookies issued, each with the time and the
                    \* redirect_uri of the authorize request it answers
    oa_callbacks,   \* ghost: the state cookies of the callbacks that succeeded
    cache,          \* TokenValidator.cache: LRU list, most recently used first
    tv_lock,        \* TokenValidator.cache mutex: the task that holds its guard
                    \* while the tasks are at an await point, or NoHolder
    tv_pc,          \* per task: "idle", or "waiting" for the upstream answer
    tv_token,       \* per task: the token of its validate_token call
    tv_result,      \* per task: what its last validate_token returned
    tv_upstream,    \* ghost: calls made to the upstream introspection endpoint
    tv_kinds,       \* ghost: per validate_token call, "hit", "stale" or "miss"
    tv_used,        \* ghost: the cached tokens in the order of their last use
    mw_n,           \* requests to protected routes so far
    mw_req,         \* per task: the Authorization header of its request
    mw_out,         \* per task: the response, and the context the handler saw
    mw_calls,       \* ghost: invocations of the downstream handler so far
    ts_file,        \* TokenStore: the encrypted token file
    mc,             \* per task: its MiroClient::request call in progress, or
                    \* the result of its last one
    gv,             \* ghost: per task, the get_valid_token invocation of its call
    mc_n,           \* MiroClient::request calls so far
    rf_n,           \* token sets the upstream refresh endpoint has issued
    ck,             \* one payload of a CookieManager: made, altered, decrypted
    pk,             \* one PKCE pair and one validate_pkce call
    ex,             \* one TokenSet and one is_expired call
    enc_log,        \* ghost: the encryptions made, each with its key and nonce
    tf,             \* per task: its load or save of the token file in progress
    tf_lock,        \* per MiroClient: who holds its token_store RwLock
    tf_n,           \* loads and saves of the token file so far
    cs_task,        \* per task: its CodeStorage call in progress, or its result
    lk_holder,      \* CodeStorage.store RwLock: the task holding the write guard
    lk_queue,       \* the tasks waiting for that lock, first come first
    sw_next         \* the cleanup task's interval: when its next tick is due

csVars == <<store, cs_seq, cs_returned, cs_last>>
oaVars ==
    <<clients, jar, oa_n, oa_req, oa_resp, oa_called, upstream_log, dcr_issued,
      oa_issued, oa_callbacks>>

tvVars ==
    <<cache, tv_lock, tv_pc, tv_token, tv_result, tv_upstream, tv_kinds, tv_used>>

mwVars == <<mw_n, mw_req, mw_out, mw_calls>>

mcVars == <<ts_file, mc, gv, mc_n, rf_n>>

ckVars == <<ck>>

fnVars == <<pk, ex>>

neVars == <<enc_log>>

tfVars == <<tf, tf_lock, tf_n>>

swVars == <<cs_task, lk_holder, lk_queue, sw_next>>

ccVars == <<neVars, tfVars, swVars>>

vars == <<now, csVars, oaVars, tvVars, mwVars, mcVars, ckVars, fnVars, ccVars>>

(***************************************************************************)
(* Bounds of the model                                                     *)
(***************************************************************************)
MaxTime == 302          \* the clock stops here
MaxStores == 3          \* store() calls in one behaviour
MaxCookies == 2         \* cookies the server sets in one behaviour
MaxUpstreamCalls == 2   \* calls to the upstream token endpoint
MaxValidations == 3     \* validate_token calls in one behaviour
MaxFullValidations == 3 \* validate_token calls on the full cache
MaxRequests == 3        \* requests to protected routes in one behaviour
MaxClientRequests == 2  \* MiroClient::request calls in one behaviour
MaxMessageLen == 1      \* characters of the string in an encrypted value
MaxExpiresIn == 62      \* lifetime (s) of the token sets whose expiry is asked
MaxCallbacks == 2       \* successful callbacks in one behaviour
MaxEncryptions == 3     \* encryptions in one behaviour
MaxFileOps == 3         \* loads and saves of the token file in one behaviour
MaxSweepStores == 2     \* store() calls beside the cleanup task
MaxSweeps == 2          \* ticks of the cleanup task's interval

(* The clock advances by 150 or 151 seconds, so that against the 300 s     *)
(* lifetimes the ages 150, 151 (younger), 300 (exactly) and 301, 302       *)
(* (older) all occur.                                                      *)
TickSteps == {150, 151}

Codes == {"c1", "c2"}
Verifiers == {"v1", "v2"}

(***************************************************************************)
(* Option values: None is the empty sequence, Some(x) a one-element one.   *)
(***************************************************************************)
None == <<>>
Some(x) == <<x>>
IsSome(o) == Len(o) = 1
IsNone(o) == Len(o) = 0
Unwrap(o) == o[1]

(***************************************************************************)
(* Clock                                                                   *)
(***************************************************************************)
Tick ==
    /\ \E d \in TickSteps :
          /\ now + d <= MaxTime
          /\ now' = now + d

(***************************************************************************)
(* oauth/types.rs: PendingCodeExchange                                     *)
(***************************************************************************)
PendingCodeExchange(code, verifier, expires_at) ==
    [code |-> code, code_verifier |-> verifier, expires_at |-> expires_at]

(***************************************************************************)
(* oauth/code_storage.rs                                                   *)
(***************************************************************************)
ExpiryTimes == {0, 150, 300}

\* `now > pending.expires_at`, the expiry test of take, cleanup_expired, stats
PendingExpired(t, pending) == t > pending.expires_at

MapRemove(m, k) == [x \in (DOMAIN m) \ {k} |-> m[x]]
MapInsert(m, k, v) == [x \in (DOMAIN m) \cup {k} |-> IF x = k THEN v ELSE m[x]]

\* CodeStorage::store: insert under the write lock, replacing any old entry
CsStore(code, pending) ==
    /\ cs_seq < MaxStores
    /\ cs_seq' = cs_seq + 1
    /\ store' = MapInsert(store, code, [pending |-> pending, sid |-> cs_seq + 1])
    /\ cs_last' = [op |-> "store", code |-> code, result |-> None,
                   sid |-> cs_seq + 1, removed |-> 0]
    /\ UNCHANGED <<cs_returned>>

TakeResult_NoExpiryCheck(t, entry) == Some(entry.pending)

\* the entry take() hands back after it removed it from the map
TakeResult(t, entry) ==
    IF PendingExpired(t, entry.pending) THEN None ELSE Some(entry.pending)

TakeRemainder_Keep(m, code) == m

\* the map take() leaves behind: store.remove(code)
TakeRemainder(m, code) == MapRemove(m, code)

\* CodeStorage::take
CsTake(code) ==
    IF code \notin DOMAIN store
    THEN /\ cs_last' = [op |-> "take", code |-> code, result |-> None, sid |-> 0,
                        removed |-> 0]
         /\ UNCHANGED <<store, cs_seq, cs_returned>>
    ELSE LET entry == store[code]
             res == TakeResult(now, entry)
         IN /\ store' = TakeRemainder(store, code)
            /\ cs_last' = [op |-> "take", code |-> code, result |-> res,
                           sid |-> entry.sid, removed |-> 0]
            /\ cs_returned' = IF IsSome(res)
                              THEN Append(cs_returned,
                                          [sid |-> entry.sid, code |-> code])
                              ELSE cs_returned
            /\ UNCHANGED cs_seq

Retain_Nothing(m, t) == [c \in {} |-> m[c]]

Retain_Everything(m, t) == m

\* store.retain(|_, pending| !(now > pending.expires_at))
Retain(m, t) ==
    [c \in {x \in DOMAIN m : ~PendingExpired(t, m[x].pending)} |-> m[c]]

\* CodeStorage::cleanup_expired, the body of the background task's loop
CsCleanupExpired ==
    /\ store' = Retain(store, now)
    /\ cs_last' = [op |-> "cleanup", code |-> "", result |-> None, sid |-> 0,
                   removed |-> Cardinality(DOMAIN store)
                                 - Cardinality(DOMAIN Retain(store, now))]
    /\ UNCHANGED <<cs_seq, cs_returned>>

\* CodeStorage::stats -> (total, expired)
Stats(m, t) ==
    <<Cardinality(DOMAIN m),
      Cardinality({c \in DOMAIN m : PendingExpired(t, m[c].pending)})>>

(***************************************************************************)
(* Strings that the code splits or tests for a prefix are sequences of     *)
(* tokens; all other strings are TLA+ strings.                             *)
(***************************************************************************)
StartsWith(s, prefix) ==
    /\ Len(s) >= Len(prefix)
    /\ SubSeq(s, 1, Len(prefix)) = prefix

\* str::split_once(':') on a token sequence: the parts around the first ":"
SplitOnce(s) ==
    IF \E i \in 1..Len(s) : s[i] = ":"
    THEN LET i == CHOOSE k \in 1..Len(s) :
                     s[k] = ":" /\ \A j \in 1..(k - 1) : s[j] # ":"
         IN Some(<<SubSeq(s, 1, i - 1), SubSeq(s, i + 1, Len(s))>>)
    ELSE None

(***************************************************************************)
(* oauth/pkce.rs                                                           *)
(***************************************************************************)
\* BASE64URL(SHA256(verifier)): one challenge per verifier, no two alike
S256(verifier) == "S256-of-" \o verifier

generate_pkce_pair_Plain(verifier) == [verifier |-> verifier, challenge |-> verifier]

\* generate_pkce_pair for the random bytes that encode to `verifier`
generate_pkce_pair(verifier) == [verifier |-> verifier, challenge |-> S256(verifier)]

(***************************************************************************)
(* oauth_session.rs: AuthCodeStore::validate_pkce                          *)
(***************************************************************************)
PkceOk == [ok |-> TRUE, error |-> ""]
PkceErr(e) == [ok |-> FALSE, error |-> e]

validate_pkce(code_verifier, code_challenge, method) ==
    IF method = "S256" THEN
        LET computed_challenge == S256(code_verifier)
        IN IF computed_challenge = code_challenge THEN PkceOk
           ELSE PkceErr("PKCE validation failed")
    ELSE IF method = "plain" THEN
        IF code_verifier = code_challenge THEN PkceOk
        ELSE PkceErr("PKCE validation failed")
    ELSE PkceErr("Unsupported code challenge method")

NoPkcePair == [verifier |-> "", challenge |-> ""]

NoPkceCall ==
    [pc |-> "none", pair |-> NoPkcePair, code_verifier |-> "", code_challenge |-> "",
     method |-> "", result |-> PkceErr("")]

\* generate_pkce_pair() is called; the rng draws `verifier`
PkceGenerate(verifier) ==
    /\ pk.pc = "none"
    /\ pk' = [pk EXCEPT !.pc = "generated", !.pair = generate_pkce_pair(verifier)]

\* AuthCodeStore::validate_pkce is called
PkceValidate(code_verifier, code_challenge, method) ==
    /\ pk.pc = "generated"
    /\ pk' = [pk EXCEPT !.pc = "validated", !.code_verifier = code_verifier,
                        !.code_challenge = code_challenge, !.method = method,
                        !.result = validate_pkce(code_verifier, code_challenge, method)]

(***************************************************************************)
(* oauth/cookie_manager.rs: AES-256-GCM over the JSON form of the data     *)
(***************************************************************************)
ServerKey == "K"
EncNonces == {1, 2}
RedirectUris == {"https://app/cb", "https://other/cb"}

\* the JSON object of an OAuthState or of a PendingCodeExchange; `ty` stands
\* for the set of member names the object has
NoJson ==
    [ty |-> "", state |-> "", code_verifier |-> "", redirect_uri |-> "",
     code |-> "", expires_at |-> 0]

OAuthState(state, verifier, redirect_uri) ==
    [state |-> state, code_verifier |-> verifier, redirect_uri |-> redirect_uri]

ToJsonOAuthState(o) ==
    [NoJson EXCEPT !.ty = "OAuthState", !.state = o.state,
                   !.code_verifier = o.code_verifier,
                   !.redirect_uri = o.redirect_uri]

ToJsonPending(p) ==
    [NoJson EXCEPT !.ty = "PendingCodeExchange", !.code = p.code,
                   !.code_verifier = p.code_verifier,
                   !.expires_at = p.expires_at]

\* serde: a member the target struct needs is missing -> error
FromJsonOk(json, ty) == json.ty = ty
FromJsonOAuthState(json) == OAuthState(json.state, json.code_verifier, json.redirect_uri)
FromJsonPending(json) == PendingCodeExchange(json.code, json.code_verifier, json.expires_at)

\* a cookie value: base64(nonce || ciphertext || tag), or something that is
\* not that.  fmt "enc" is a well-formed payload made under `key`; `intact`
\* is FALSE once any byte of it was altered.
NoCookie ==
    [fmt |-> "empty", key |-> "", nonce |-> 0, intact |-> FALSE, json |-> NoJson]
BadBase64Cookie == [NoCookie EXCEPT !.fmt = "badb64"]
ShortCookie == [NoCookie EXCEPT !.fmt = "short"]

\* CookieManager::encrypt with the nonce the rng drew
Encrypt(key, nonce, json) ==
    [fmt |-> "enc", key |-> key, nonce |-> nonce, intact |-> TRUE, json |-> json]

\* CookieManager::decrypt followed by deserialisation into `ty`: the
\* CookieError, or "" on success
DecryptError(key, cookie, ty) ==
    IF cookie.fmt \in {"badb64", "empty"} THEN
        IF cookie.fmt = "badb64" THEN "Base64Error" ELSE "InvalidFormat"
    ELSE IF cookie.fmt = "short" THEN "InvalidFormat"
    ELSE IF cookie.key # key \/ ~cookie.intact THEN "DecryptionError"
    ELSE IF ~FromJsonOk(cookie.json, ty) THEN "SerializationError"
    ELSE ""

DecryptOk(key, cookie, ty) == DecryptError(key, cookie, ty) = ""

(***************************************************************************)
(* oauth/cookie_manager.rs at the level of bytes: the payload is           *)
(* base64(nonce || ciphertext || tag) of the JSON form of the data.        *)
(* AES-256-GCM is a dependency; it is represented by a stream cipher with  *)
(* a keyed 16-byte tag over nonce and ciphertext, which has the guarantees *)
(* of an AEAD for the alterations considered here (one byte, another key). *)
(***************************************************************************)
NONCE_LEN == 12
TAG_LEN == 16
KEY_LEN == 32
MIN_COOKIE_LEN == 28
Base64Pad == 64                  \* '=' among the characters 0..63
Quote == 34
Backslash == 92
Comma == 44
Digit0 == 48

RECURSIVE SumBytes(_)
SumBytes(bytes) ==
    IF bytes = <<>> THEN 0 ELSE Head(bytes) + SumBytes(Tail(bytes))

\* the keys and nonces of the model: key material as the tests use it, and
\* two draws of the rng
CookieKeys == {[i \in 1..KEY_LEN |-> 42], [i \in 1..KEY_LEN |-> 0]}
CookieNonces == {[i \in 1..NONCE_LEN |-> 0], [i \in 1..NONCE_LEN |-> (21 * i) % 256]}

\* the data put into cookies, reduced to a string and a number
MessageChars == {97, Quote}
Messages == UNION {[1..n -> MessageChars] : n \in 0..MaxMessageLen}
CookieDatas == {[message |-> m, count |-> c] : m \in Messages, c \in {7, 42}}
NoCookieData == [message |-> <<>>, count |-> 0]

\* serde_json: a string is written between quotes, '"' and '\' escaped
RECURSIVE EscapeJson(_)
EscapeJson(s) ==
    IF s = <<>> THEN <<>>
    ELSE (IF Head(s) \in {Quote, Backslash} THEN <<Backslash, Head(s)>> ELSE <<Head(s)>>)
         \o EscapeJson(Tail(s))

DecimalDigits(n) ==
    IF n < 10 THEN <<Digit0 + n>> ELSE <<Digit0 + (n \div 10), Digit0 + (n % 10)>>

\* serde_json::to_vec
to_vec(data) ==
    <<Quote>> \o EscapeJson(data.message) \o <<Quote, Comma>> \o DecimalDigits(data.count)

\* the string that starts at bytes[i] (after the opening quote): its value
\* and the index after the closing quote, or next = 0 on a syntax error
RECURSIVE ParseJsonString(_, _, _)
ParseJsonString(bytes, i, acc) ==
    IF i > Len(bytes) THEN [value |-> <<>>, next |-> 0]
    ELSE IF bytes[i] = Quote THEN [value |-> acc, next |-> i + 1]
    ELSE IF bytes[i] = Backslash THEN
        IF i + 1 <= Len(bytes) /\ bytes[i + 1] \in {Quote, Backslash}
        THEN ParseJsonString(bytes, i + 2, Append(acc, bytes[i + 1]))
        ELSE [value |-> <<>>, next |-> 0]
    ELSE IF bytes[i] < 32 THEN [value |-> <<>>, next |-> 0]
    ELSE ParseJsonString(bytes, i + 1, Append(acc, bytes[i]))

IsDigit(b) == b \in Digit0..(Digit0 + 9)

ParseDecimal(bytes) ==
    IF Len(bytes) = 1 /\ IsDigit(bytes[1]) THEN Some(bytes[1] - Digit0)
    ELSE IF Len(bytes) = 2 /\ IsDigit(bytes[1]) /\ IsDigit(bytes[2]) /\ bytes[1] # Digit0
    THEN Some(10 * (bytes[1] - Digit0) + (bytes[2] - Digit0))
    ELSE None

\* serde_json::from_slice
from_slice(bytes) ==
    IF Len(bytes) < 1 \/ bytes[1] # Quote THEN [ok |-> FALSE, data |-> NoCookieData]
    ELSE LET s == ParseJsonString(bytes, 2, <<>>)
         IN IF s.next = 0 \/ s.next > Len(bytes) \/ bytes[s.next] # Comma
            THEN [ok |-> FALSE, data |-> NoCookieData]
            ELSE LET n == ParseDecimal(SubSeq(bytes, s.next + 1, Len(bytes)))
                 IN IF IsSome(n)
                    THEN [ok |-> TRUE, data |-> [message |-> s.value, count |-> Unwrap(n)]]
                    ELSE [ok |-> FALSE, data |-> NoCookieData]

\* the i-th byte of the key stream of (key, nonce)
KeyStream(key, nonce, i) ==
    (key[((i - 1) % KEY_LEN) + 1] + nonce[((i - 1) % NONCE_LEN) + 1] + i) % 256

\* the authentication tag of a ciphertext under (key, nonce)
AeadTag(key, nonce, ct) ==
    LET s == SumBytes(key) + SumBytes(nonce) + SumBytes(ct)
    IN [j \in 1..TAG_LEN |-> (s + j) % 256]

\* cipher.encrypt(&nonce, plaintext): ciphertext || tag
AeadEncrypt(key, nonce, plaintext) ==
    LET ct == [i \in 1..Len(plaintext) |->
                  (plaintext[i] + KeyStream(key, nonce, i)) % 256]
    IN ct \o AeadTag(key, nonce, ct)

\* cipher.decrypt(&nonce, ciphertext): the plaintext if the tag verifies
AeadDecrypt(key, nonce, data) ==
    IF Len(data) < TAG_LEN THEN [ok |-> FALSE, bytes |-> <<>>]
    ELSE LET n == Len(data) - TAG_LEN
             ct == SubSeq(data, 1, n)
             tag == SubSeq(data, n + 1, Len(data))
         IN IF tag # AeadTag(key, nonce, ct) THEN [ok |-> FALSE, bytes |-> <<>>]
            ELSE [ok |-> TRUE,
                  bytes |-> [i \in 1..n |->
                                (ct[i] + 256 - KeyStream(key, nonce, i)) % 256]]

\* the byte at position i, or 0 beyond the end
ByteAt(bytes, i) == IF i <= Len(bytes) THEN bytes[i] ELSE 0

\* STANDARD.encode: three bytes to four characters, padded with '='
Base64Encode(bytes) ==
    LET n == Len(bytes)
        groups == (n + 2) \div 3
        Word(g) == ByteAt(bytes, 3 * g + 1) * 65536 + ByteAt(bytes, 3 * g + 2) * 256
                   + ByteAt(bytes, 3 * g + 3)
        Char(g, k) ==
            IF k = 0 THEN Word(g) \div 262144
            ELSE IF k = 1 THEN (Word(g) \div 4096) % 64
            ELSE IF k = 2 THEN
                IF 3 * g + 2 > n THEN Base64Pad ELSE (Word(g) \div 64) % 64
            ELSE IF 3 * g + 3 > n THEN Base64Pad ELSE Word(g) % 64
    IN [p \in 1..(4 * groups) |-> Char((p - 1) \div 4, (p - 1) % 4)]

\* STANDARD.decode: rejects a length that is no multiple of four, padding
\* anywhere but at the end, and trailing bits that are not zero
Base64Decode(chars) ==
    LET m == Len(chars)
        groups == m \div 4
        pads == IF m = 0 THEN 0
                ELSE IF chars[m] # Base64Pad THEN 0
                ELSE IF chars[m - 1] # Base64Pad THEN 1 ELSE 2
        n == 3 * groups - pads
        Six(p) == IF chars[p] = Base64Pad THEN 0 ELSE chars[p]
        Word(g) == Six(4 * g + 1) * 262144 + Six(4 * g + 2) * 4096
                   + Six(4 * g + 3) * 64 + Six(4 * g + 4)
        Byte(i) ==
            LET w == Word((i - 1) \div 3)
                k == (i - 1) % 3
            IN IF k = 0 THEN w \div 65536
               ELSE IF k = 1 THEN (w \div 256) % 256 ELSE w % 256
        last == Word(groups - 1)
    IN IF m % 4 # 0 THEN [ok |-> FALSE, bytes |-> <<>>]
       ELSE IF \E p \in 1..(m - pads) : chars[p] = Base64Pad
       THEN [ok |-> FALSE, bytes |-> <<>>]
       ELSE IF \/ pads = 1 /\ last % 256 # 0
               \/ pads = 2 /\ last % 65536 # 0
       THEN [ok |-> FALSE, bytes |-> <<>>]
       ELSE [ok |-> TRUE, bytes |-> [i \in 1..n |-> Byte(i)]]

\* encrypted[0..12]
NonceBytes(encrypted) == SubSeq(encrypted, 1, NONCE_LEN)

CipherBytes_FromLastNonceByte(encrypted) == SubSeq(encrypted, NONCE_LEN, Len(encrypted))

\* &encrypted[12..]
CipherBytes(encrypted) == SubSeq(encrypted, NONCE_LEN + 1, Len(encrypted))

CookieErr(e) == [ok |-> FALSE, error |-> e, data |-> NoCookieData]
CookieOk(data) == [ok |-> TRUE, error |-> "", data |-> data]

\* CookieManager::encrypt with the nonce the rng drew
encrypt(key, nonce_bytes, data) ==
    LET plaintext == to_vec(data)
        ciphertext == AeadEncrypt(key, nonce_bytes, plaintext)
        encrypted == nonce_bytes \o ciphertext
    IN Base64Encode(encrypted)

\* CookieManager::decrypt
decrypt(key, encrypted_b64) ==
    LET decoded == Base64Decode(encrypted_b64)
    IN IF ~decoded.ok THEN CookieErr("Base64Error")
       ELSE IF Len(decoded.bytes) < MIN_COOKIE_LEN THEN CookieErr("InvalidFormat")
       ELSE LET encrypted == decoded.bytes
                plaintext == AeadDecrypt(key, NonceBytes(encrypted), CipherBytes(encrypted))
            IN IF ~plaintext.ok THEN CookieErr("DecryptionError")
               ELSE LET parsed == from_slice(plaintext.bytes)
                    IN IF ~parsed.ok THEN CookieErr("SerializationError")
                       ELSE CookieOk(parsed.data)

\* what became of a payload on its way back: one byte of it was altered
\* (test_decrypt_tampered_data_fails: decode, change a byte, encode)
AlterByte(encrypted_b64, i, delta) ==
    LET bytes == Base64Decode(encrypted_b64).bytes
    IN Base64Encode([bytes EXCEPT ![i] = (@ + delta) % 256])

\* the part of nonce || ciphertext || tag that byte i of n belongs to
PartOf(i, n) ==
    IF i <= NONCE_LEN THEN "nonce" ELSE IF i > n - TAG_LEN THEN "tag" ELSE "ciphertext"

NoCookieCall ==
    [pc |-> "none", key |-> <<>>, data |-> NoCookieData, payload |-> <<>>,
     altered |-> "none", dkey |-> <<>>, out |-> CookieErr("")]

CkInit == ck = NoCookieCall

\* manager.encrypt(&data) of a CookieManager made with `key`
CookieEncrypt(key, nonce_bytes, data) ==
    /\ ck.pc = "none"
    /\ ck' = [NoCookieCall EXCEPT !.pc = "encrypted", !.key = key, !.data = data,
                                  !.payload = encrypt(key, nonce_bytes, data)]

\* somebody alters one byte of the payload
CookieAlter(i, delta) ==
    /\ ck.pc = "encrypted"
    /\ ck.altered = "none"
    /\ LET n == Len(Base64Decode(ck.payload).bytes)
       IN /\ i \in 1..n
          /\ ck' = [ck EXCEPT !.payload = AlterByte(ck.payload, i, delta),
                              !.altered = PartOf(i, n)]

\* the payload is replaced by something that is no payload: the base64 of
\* eight bytes (test_decrypt_too_short_fails), or text that is not base64
\* (test_decrypt_invalid_base64_fails); the result of an earlier decrypt stays
MalformedPayload(kind) ==
    IF kind = "short" THEN Base64Encode(<<116, 111, 111, 115, 104, 111, 114, 116>>)
    ELSE <<19, 22, Base64Pad, 5, 46>>

CookieMalform(kind) ==
    /\ ck.pc \in {"encrypted", "decrypted"}
    /\ ck.altered # kind
    /\ ck' = [ck EXCEPT !.pc = "encrypted", !.payload = MalformedPayload(kind),
                        !.altered = kind]

\* manager.decrypt(&payload) of a CookieManager made with `key`
CookieDecrypt(key) ==
    /\ ck.pc = "encrypted"
    /\ ck' = [ck EXCEPT !.pc = "decrypted", !.dkey = key,
                        !.out = decrypt(key, ck.payload)]

(***************************************************************************)
(* oauth/dcr.rs                                                            *)
(***************************************************************************)
ClientIds == {"id1", "id2"}
Secrets == {<<"s1">>, <<"s2">>}
StaticClientId == "miro-client"      \* config.client_id

\* ClientRegistry::register
RegistryRegister(reg, client) == MapInsert(reg, client.client_id, client)

\* ClientRegistry::get
RegistryGet(reg, client_id) ==
    IF client_id \in DOMAIN reg THEN Some(reg[client_id]) ELSE None

RegistryValidate_IdOnly(reg, client_id, client_secret) ==
    IsSome(RegistryGet(reg, client_id))

\* ClientRegistry::validate
RegistryValidate(reg, client_id, client_secret) ==
    LET c == RegistryGet(reg, client_id)
    IN IF IsSome(c) THEN Unwrap(c).client_secret = client_secret ELSE FALSE

RedirectUriAllowed_AnyScheme(uri) ==
    \/ StartsWith(uri, <<"https", "://">>)
    \/ StartsWith(uri, <<"http", "://">>)

\* uri.starts_with("https://") || uri.starts_with("http://localhost")
RedirectUriAllowed(uri) ==
    \/ StartsWith(uri, <<"https", "://">>)
    \/ StartsWith(uri, <<"http", "://", "localhost">>)

(***************************************************************************)
(* HTTP messages of the OAuth endpoints                                    *)
(***************************************************************************)
STATE_COOKIE_NAME == "miro_oauth_state"
PENDING_CODE_COOKIE_NAME == "miro_pending_code"
STATE_COOKIE_MAX_AGE == 300
PENDING_CODE_MAX_AGE == 300
MIRO_AUTH_ENDPOINT == "https://miro.com/oauth/authorize"
CookieAttrs == "HttpOnly; Secure; SameSite=Lax; Path=/"

\* a URL with the query parameters the handlers append; "" = not there
NoUrl ==
    [base |-> "", client_id |-> "", response_type |-> "", redirect_uri |-> "",
     scope |-> "", state |-> "", code_challenge |-> "",
     code_challenge_method |-> "", code |-> ""]

NoToken ==
    [access_token |-> "", token_type |-> "", expires_in |-> 0,
     refresh_token |-> None, scope |-> None]

NoClient ==
    [client_id |-> "", client_secret |-> <<>>, client_name |-> "",
     redirect_uris |-> <<>>, grant_types |-> <<>>, response_types |-> <<>>,
     token_endpoint_auth_method |-> "", client_id_issued_at |-> 0]

SetCookie(name, value, max_age) ==
    [name |-> name, value |-> value, max_age |-> max_age, attrs |-> CookieAttrs]

NoResponse ==
    [status |-> 0, error |-> "", msg |-> <<>>, set_cookies |-> <<>>,
     location |-> NoUrl, token |-> NoToken, client |-> NoClient]

\* OAuthEndpointError::into_response: (status, message), nothing else
ErrorStatus(variant) ==
    CASE variant = "InvalidState" -> 400
      [] variant = "InvalidRequest" -> 400
      [] variant = "OAuthError" -> 400
      [] variant = "CookieError" -> 500
      [] variant = "Unauthorized" -> 401

ErrorResponse(variant, msg) ==
    [NoResponse EXCEPT !.status = ErrorStatus(variant), !.error = variant,
                       !.msg = msg]

\* the request headers the handlers look at: the Cookie header as a list of
\* name=value pairs, and the Authorization header
NoAuthorization ==
    [present |-> FALSE, ascii |-> FALSE, basic |-> FALSE, b64 |-> FALSE,
     utf8 |-> FALSE, decoded |-> <<>>]

\* "Basic " + URL_SAFE_NO_PAD(decoded)
BasicAuthorization(decoded) ==
    [present |-> TRUE, ascii |-> TRUE, basic |-> TRUE, b64 |-> TRUE,
     utf8 |-> TRUE, decoded |-> decoded]

\* a Basic header whose payload URL_SAFE_NO_PAD cannot decode (padded or
\* standard-alphabet base64)
BasicUndecodable == [BasicAuthorization(<<>>) EXCEPT !.b64 = FALSE, !.utf8 = FALSE]

\* another scheme
BearerAuthorization == [BasicAuthorization(<<>>) EXCEPT !.basic = FALSE,
                                                        !.b64 = FALSE, !.utf8 = FALSE]

\* extract_cookie: the value of the first cookie of that name
extract_cookie(headers, cookie_name) ==
    IF \E i \in 1..Len(headers.cookie) : headers.cookie[i].name = cookie_name
    THEN LET i == CHOOSE k \in 1..Len(headers.cookie) :
                     /\ headers.cookie[k].name = cookie_name
                     /\ \A j \in 1..(k - 1) : headers.cookie[j].name # cookie_name
         IN Some(headers.cookie[i].value)
    ELSE None

\* extract_client_secret: a readable Basic header decides alone (`?` returns
\* None when it has no ':'), otherwise the form body's client_secret
extract_client_secret(headers, token_request) ==
    LET auth == headers.authorization
    IN IF auth.present /\ auth.ascii /\ auth.basic /\ auth.b64 /\ auth.utf8
       THEN LET parts == SplitOnce(auth.decoded)
            IN IF IsSome(parts) THEN Some(Unwrap(parts)[2]) ELSE None
       ELSE token_request.client_secret

(***************************************************************************)
(* oauth/proxy_provider.rs                                                 *)
(***************************************************************************)
MiroClientId == "miro-client"
MiroRedirectUri == "https://proxy/oauth/callback"
MIRO_SCOPES == "boards:read boards:write"

build_authorization_url_Plain(state, pkce_challenge) ==
    [NoUrl EXCEPT !.base = MIRO_AUTH_ENDPOINT, !.client_id = MiroClientId,
                  !.response_type = "code", !.redirect_uri = MiroRedirectUri,
                  !.scope = MIRO_SCOPES, !.state = state,
                  !.code_challenge = pkce_challenge,
                  !.code_challenge_method = "plain"]

\* MiroOAuthProvider::build_authorization_url
build_authorization_url(state, pkce_challenge) ==
    [NoUrl EXCEPT !.base = MIRO_AUTH_ENDPOINT, !.client_id = MiroClientId,
                  !.response_type = "code", !.redirect_uri = MiroRedirectUri,
                  !.scope = MIRO_SCOPES, !.state = state,
                  !.code_challenge = pkce_challenge,
                  !.code_challenge_method = "S256"]

\* what the upstream token endpoint may answer to one POST
UpstreamOutcomes ==
    {"ok", "ok_no_refresh_token", "non2xx", "non2xx_bad_body", "net_error"}

exchange_code_for_token_AnyStatus(outcome, t) ==
    Some([access_token |-> "at", refresh_token |-> "rt", expires_at |-> t + 3600])

\* MiroOAuthProvider::parse_token_response / exchange_code_for_token:
\* the token data, or None for every error
exchange_code_for_token(outcome, t) ==
    IF outcome = "ok"
    THEN Some([access_token |-> "at", refresh_token |-> "rt",
               expires_at |-> t + 3600])
    ELSE None

(***************************************************************************)
(* oauth/dcr.rs: POST /register                                            *)
(***************************************************************************)
\* register_handler with the uuids it drew: the response, and the client it
\* stored (None when the request is rejected)
OrDefault_Keep(list, default) == list

\* if list.is_empty() { vec![default] } else { list }
OrDefault(list, default) == IF Len(list) = 0 THEN <<default>> ELSE list

register_handler(req, client_id, client_secret, t) ==
    IF req.client_name = "" THEN
        [resp |-> [NoResponse EXCEPT !.status = 400,
                                     !.error = "invalid_client_metadata"],
         client |-> None]
    ELSE IF Len(req.redirect_uris) = 0 THEN
        [resp |-> [NoResponse EXCEPT !.status = 400,
                                     !.error = "invalid_redirect_uri"],
         client |-> None]
    ELSE IF \E i \in 1..Len(req.redirect_uris) :
                ~RedirectUriAllowed(req.redirect_uris[i]) THEN
        [resp |-> [NoResponse EXCEPT !.status = 400,
                                     !.error = "invalid_redirect_uri"],
         client |-> None]
    ELSE
        LET grant_types == OrDefault(req.grant_types, "authorization_code")
            response_types == OrDefault(req.response_types, "code")
            auth_method == IF IsNone(req.token_endpoint_auth_method)
                           THEN "client_secret_basic"
                           ELSE Unwrap(req.token_endpoint_auth_method)
        IN [resp |-> [NoResponse EXCEPT
                        !.status = 200,
                        !.client = [client_id |-> client_id,
                                    client_secret |-> client_secret,
                                    client_name |-> req.client_name,
                                    redirect_uris |-> req.redirect_uris,
                                    grant_types |-> grant_types,
                                    response_types |-> response_types,
                                    token_endpoint_auth_method |-> auth_method,
                                    client_id_issued_at |-> t]],
            client |-> Some([client_id |-> client_id,
                             client_secret |-> client_secret,
                             client_name |-> req.client_name,
                             redirect_uris |-> req.redirect_uris,
                             grant_types |-> grant_types,
                             created_at |-> t])]

(***************************************************************************)
(* oauth/endpoints.rs: GET /oauth/authorize                                *)
(***************************************************************************)
ResponseTypeSupported_Any(response_type) == TRUE

\* params.response_type != "code" is refused
ResponseTypeSupported(response_type) == response_type = "code"

\* authorize_handler, with the verifier bytes, the state nonce and the cipher
\* nonce that the rng drew
authorize_handler(params, verifier, state, enc_nonce) ==
    IF ~ResponseTypeSupported(params.response_type) THEN
        ErrorResponse("InvalidRequest",
                      <<"Unsupported response_type", params.response_type>>)
    ELSE
        LET pkce == generate_pkce_pair(verifier)
            oauth_state == OAuthState(state, pkce.verifier, params.redirect_uri)
            encrypted_state == Encrypt(ServerKey, enc_nonce,
                                       ToJsonOAuthState(oauth_state))
            auth_url == build_authorization_url(state, pkce.challenge)
        IN [NoResponse EXCEPT
              !.status = 302,
              !.set_cookies = <<SetCookie(STATE_COOKIE_NAME, encrypted_state,
                                          STATE_COOKIE_MAX_AGE)>>,
              !.location = auth_url]

(***************************************************************************)
(* oauth/endpoints.rs: GET /oauth/callback                                 *)
(***************************************************************************)
StateMatches_Any(state_param, oauth_state) == TRUE

\* state_param != &oauth_state.state is refused
StateMatches(state_param, oauth_state) == state_param = oauth_state.state

StateCookieUsable_NoKeyCheck(cookie) ==
    cookie.fmt = "enc" /\ cookie.intact /\ FromJsonOk(cookie.json, "OAuthState")

\* cookie_manager.decrypt::<OAuthState>(&state_cookie) is Ok
StateCookieUsable(cookie) == DecryptOk(ServerKey, cookie, "OAuthState")

\* callback_handler, with the cipher nonce the rng drew
callback_handler(params, headers, t, enc_nonce) ==
    IF IsSome(params.error) THEN
        ErrorResponse("OAuthError", <<"Miro OAuth error", Unwrap(params.error)>>)
    ELSE LET state_cookie == extract_cookie(headers, STATE_COOKIE_NAME) IN
    IF IsNone(state_cookie) THEN
        ErrorResponse("InvalidState", <<"State cookie not found">>)
    ELSE IF ~StateCookieUsable(Unwrap(state_cookie)) THEN
        ErrorResponse("InvalidState",
                      <<"Failed to decrypt state",
                        DecryptError(ServerKey, Unwrap(state_cookie), "OAuthState")>>)
    ELSE LET oauth_state == FromJsonOAuthState(Unwrap(state_cookie).json) IN
    IF IsNone(params.state) THEN
        ErrorResponse("InvalidState", <<"State parameter missing">>)
    ELSE IF ~StateMatches(Unwrap(params.state), oauth_state) THEN
        ErrorResponse("InvalidState", <<"State parameter mismatch">>)
    ELSE IF IsNone(params.code) THEN
        ErrorResponse("InvalidRequest", <<"Authorization code missing">>)
    ELSE
        LET code == Unwrap(params.code)
            pending_exchange ==
                PendingCodeExchange(code, oauth_state.code_verifier,
                                    t + PENDING_CODE_MAX_AGE)
            encrypted_pending == Encrypt(ServerKey, enc_nonce,
                                         ToJsonPending(pending_exchange))
        IN [NoResponse EXCEPT
              !.status = 302,
              !.set_cookies = <<SetCookie(PENDING_CODE_COOKIE_NAME,
                                          encrypted_pending, PENDING_CODE_MAX_AGE),
                                SetCookie(STATE_COOKIE_NAME, NoCookie, 0)>>,
              !.location = [NoUrl EXCEPT !.base = oauth_state.redirect_uri,
                                         !.code = code,
                                         !.state = Unwrap(params.state)]]

(***************************************************************************)
(* oauth/endpoints.rs: POST /oauth/token                                   *)
(***************************************************************************)
GrantTypeSupported_Any(grant_type) == TRUE

\* token_request.grant_type != "authorization_code" is refused
GrantTypeSupported(grant_type) == grant_type = "authorization_code"

\* is_valid_client
IsValidClient(reg, headers, token_request) ==
    LET client_secret == extract_client_secret(headers, token_request)
    IN IF IsSome(client_secret)
       THEN RegistryValidate(reg, token_request.client_id, Unwrap(client_secret))
       ELSE token_request.client_id = StaticClientId

UpstreamExchange_ClientVerifier(token_request, pending_exchange) ==
    [code |-> pending_exchange.code,
     code_verifier |-> IF IsSome(token_request.code_verifier)
                       THEN Unwrap(token_request.code_verifier)
                       ELSE pending_exchange.code_verifier]

\* the arguments of provider.exchange_code_for_token: both from the pending
\* code exchange, none from the token request
UpstreamExchange(token_request, pending_exchange) ==
    [code |-> pending_exchange.code,
     code_verifier |-> pending_exchange.code_verifier]

CodeExpired_Never(t, pending_exchange) == FALSE

\* now > pending_exchange.expires_at is refused
CodeExpired(t, pending_exchange) == t > pending_exchange.expires_at

CodeMatches_Any(code, pending_exchange) == TRUE

\* token_request.code != pending_exchange.code is refused
CodeMatches(code, pending_exchange) == code = pending_exchange.code

\* token_handler, with the answer the upstream token endpoint gives if it is
\* asked: the response, and the upstream call made (None when none is made)
token_handler(reg, token_request, headers, t, outcome) ==
    IF ~GrantTypeSupported(token_request.grant_type) THEN
        [resp |-> ErrorResponse("InvalidRequest",
                                <<"Unsupported grant_type", token_request.grant_type>>),
         upstream |-> None]
    ELSE IF ~IsValidClient(reg, headers, token_request) THEN
        [resp |-> ErrorResponse("Unauthorized", <<"Invalid client credentials">>),
         upstream |-> None]
    ELSE LET pending_cookie == extract_cookie(headers, PENDING_CODE_COOKIE_NAME) IN
    IF IsNone(pending_cookie) THEN
        [resp |-> ErrorResponse("Unauthorized", <<"Pending code cookie not found">>),
         upstream |-> None]
    ELSE IF ~DecryptOk(ServerKey, Unwrap(pending_cookie), "PendingCodeExchange") THEN
        [resp |-> ErrorResponse("Unauthorized",
                    <<"Failed to decrypt pending code",
                      DecryptError(ServerKey, Unwrap(pending_cookie),
                                   "PendingCodeExchange")>>),
         upstream |-> None]
    ELSE LET pending_exchange == FromJsonPending(Unwrap(pending_cookie).json) IN
    IF CodeExpired(t, pending_exchange) THEN
        [resp |-> ErrorResponse("Unauthorized", <<"Authorization code has expired">>),
         upstream |-> None]
    ELSE IF ~CodeMatches(token_request.code, pending_exchange) THEN
        [resp |-> ErrorResponse("Unauthorized", <<"Authorization code mismatch">>),
         upstream |-> None]
    ELSE
        LET call == UpstreamExchange(token_request, pending_exchange)
            cookie_data == exchange_code_for_token(outcome, t)
        IN IF IsNone(cookie_data) THEN
               [resp |-> ErrorResponse("OAuthError",
                                       <<"Token exchange with Miro failed", outcome>>),
                upstream |-> Some(call)]
           ELSE
               LET d == Unwrap(cookie_data)
                   diff == d.expires_at - t
               IN [resp |-> [NoResponse EXCEPT
                               !.status = 200,
                               !.token = [access_token |-> d.access_token,
                                          token_type |-> "Bearer",
                                          expires_in |-> IF diff > 0 THEN diff ELSE 0,
                                          refresh_token |-> Some(d.refresh_token),
                                          scope |-> Some(MIRO_SCOPES)]],
                   upstream |-> Some(call)]

(***************************************************************************)
(* Requests the environment sends to the OAuth endpoints                   *)
(***************************************************************************)
\* the values the rng draws for the k-th authorization: never drawn before
StateNonceSeq == <<"n1", "n2", "n3", "n4">>
VerifierSeq == <<"v1", "v2", "v3", "v4">>

NoHeaders == [cookie |-> <<>>, authorization |-> NoAuthorization]

\* cookies made by somebody else under a key of their own
ForgedCookies ==
    {Encrypt("K2", 1, ToJsonOAuthState(OAuthState("n1", "v1", "https://evil/cb"))),
     Encrypt("K2", 1, ToJsonPending(PendingCodeExchange("c1", "v1", 100000)))}

\* what a user agent can put into a cookie: a cookie the server set, such a
\* cookie with a byte altered, a forged one, or rubbish
CookieValues(j) ==
    j \cup {[c EXCEPT !.intact = FALSE] : c \in j}
      \cup ForgedCookies \cup {BadBase64Cookie, ShortCookie}

\* Cookie headers: none, one cookie under either name, or both cookies
CookieHeaders(j) ==
    {<<>>}
    \cup {<<[name |-> n, value |-> v]>> :
            n \in {STATE_COOKIE_NAME, PENDING_CODE_COOKIE_NAME},
            v \in CookieValues(j)}
    \cup {<<[name |-> STATE_COOKIE_NAME, value |-> v1],
            [name |-> PENDING_CODE_COOKIE_NAME, value |-> v2]>> :
            v1 \in j, v2 \in j}

AuthorizationHeaders ==
    {NoAuthorization, BearerAuthorization, BasicUndecodable,
     BasicAuthorization(<<"id1">>),
     BasicAuthorization(<<"id1", ":", "s1">>),
     BasicAuthorization(<<"id1", ":", "s2">>)}

HttpsUri == <<"https", "://", "example.com", "/cb">>
HttpUri == <<"http", "://", "example.com", "/cb">>
LocalhostUri == <<"http", "://", "localhost", ":3000", "/cb">>

RegistrationRequest(name, uris, grants, responses, method) ==
    [client_name |-> name, redirect_uris |-> uris, grant_types |-> grants,
     response_types |-> responses, token_endpoint_auth_method |-> method]

RegistrationRequests ==
    {RegistrationRequest(name, uris, grants, responses, method) :
        name \in {"", "app"},
        uris \in {<<>>, <<HttpsUri>>, <<HttpUri>>, <<LocalhostUri>>,
                  <<HttpsUri, HttpUri>>, <<LocalhostUri, HttpsUri>>},
        grants \in {<<>>, <<"refresh_token">>},
        responses \in {<<>>, <<"token">>},
        method \in {None, Some(""), Some("client_secret_post")}}

AuthorizeParams ==
    [response_type : {"code", "token"}, client_id : {"id1"},
     redirect_uri : RedirectUris]

CallbackParams ==
    [code : {None} \cup {Some(c) : c \in Codes},
     state : {None, Some("n1"), Some("n2")},
     error : {None, Some("access_denied")}]

TokenRequests ==
    [grant_type : {"authorization_code", "client_credentials"},
     code : Codes,
     redirect_uri : {"https://app/cb"},
     client_id : {"id1", StaticClientId},
     client_secret : {None, Some(<<"s1">>)},
     code_verifier : {None}]

(***************************************************************************)
(* The endpoints as steps of the server                                    *)
(***************************************************************************)
OaInit ==
    /\ clients = <<>>
    /\ jar = {}
    /\ oa_n = 0
    /\ oa_req = [op |-> "none", at |-> 0]
    /\ oa_resp = NoResponse
    /\ oa_called = FALSE
    /\ upstream_log = <<>>
    /\ dcr_issued = {}
    /\ oa_issued = {}
    /\ oa_callbacks = <<>>

\* A handler returns its header pairs in an array, (status, [(name, value); N]),
\* and the web framework turns the array into the header map of the response.
\* The framework is not part of these sources: a pair either replaces what
\* the header map holds under its name (HeaderMap::insert, what axum does
\* with an array) or is added to it (HeaderMap::append).
HeaderArraySemantics == {"insert", "append"}

IntoResponse(r, semantics) ==
    IF semantics = "insert" /\ Len(r.set_cookies) > 1
    THEN [r EXCEPT !.set_cookies = <<r.set_cookies[Len(r.set_cookies)]>>]
    ELSE r

\* the cookies a response makes the user agent keep
CookiesSet(r) ==
    {r.set_cookies[i].value :
        i \in {k \in 1..Len(r.set_cookies) : r.set_cookies[k].max_age > 0}}

\* POST /register handled; the uuids are ones no client has yet
RegisterApply(req, id, secret) ==
    LET r == register_handler(req, id, secret, now)
    IN /\ clients' = IF IsSome(r.client)
                     THEN RegistryRegister(clients, Unwrap(r.client))
                     ELSE clients
       /\ oa_req' = [op |-> "register", at |-> now, params |-> req,
                     headers |-> NoHeaders]
       /\ oa_resp' = r.resp
       /\ oa_called' = FALSE
       /\ dcr_issued' = IF r.resp.status = 200
                        THEN dcr_issued \cup
                                {[client_id |-> r.resp.client.client_id,
                                  client_secret |-> r.resp.client.client_secret]}
                        ELSE dcr_issued
       /\ UNCHANGED <<jar, oa_n, upstream_log, oa_issued, oa_callbacks>>

\* GET /oauth/authorize handled
AuthorizeApply(params, enc_nonce) ==
    LET r == authorize_handler(params, VerifierSeq[oa_n + 1],
                               StateNonceSeq[oa_n + 1], enc_nonce)
    IN /\ oa_req' = [op |-> "authorize", at |-> now, params |-> params,
                     headers |-> NoHeaders]
       /\ oa_resp' = r
       /\ jar' = jar \cup CookiesSet(r)
       /\ oa_n' = IF r.status = 302 THEN oa_n + 1 ELSE oa_n
       /\ oa_called' = FALSE
       /\ oa_issued' = oa_issued \cup
            {[cookie |-> c, at |-> now, redirect_uri |-> params.redirect_uri] :
                c \in CookiesSet(r)}
       /\ UNCHANGED <<clients, upstream_log, dcr_issued, oa_callbacks>>

\* GET /oauth/callback handled
CallbackApply(params, headers, enc_nonce) ==
    \E semantics \in HeaderArraySemantics :
        LET r == IntoResponse(callback_handler(params, headers, now, enc_nonce),
                              semantics)
        IN /\ oa_req' = [op |-> "callback", at |-> now, params |-> params,
                         headers |-> headers]
           /\ oa_resp' = r
           /\ jar' = jar \cup CookiesSet(r)
           /\ oa_called' = FALSE
           /\ oa_callbacks' =
                IF r.status = 302
                THEN Append(oa_callbacks,
                            Unwrap(extract_cookie(headers, STATE_COOKIE_NAME)))
                ELSE oa_callbacks
           /\ UNCHANGED <<clients, oa_n, upstream_log, dcr_issued, oa_issued>>

\* POST /oauth/token handled, the upstream token endpoint answering `outcome`
TokenApply(token_request, headers, outcome) ==
    LET r == token_handler(clients, token_request, headers, now, outcome)
    IN /\ oa_req' = [op |-> "token", at |-> now, params |-> token_request,
                     headers |-> headers]
       /\ oa_resp' = r.resp
       /\ oa_called' = IsSome(r.upstream)
       /\ upstream_log' =
            IF IsSome(r.upstream)
            THEN Append(upstream_log,
                        [code |-> Unwrap(r.upstream).code,
                         code_verifier |-> Unwrap(r.upstream).code_verifier,
                         cookie |-> Unwrap(extract_cookie(headers,
                                             PENDING_CODE_COOKIE_NAME)),
                         at |-> now,
                         outcome |-> outcome,
                         status |-> r.resp.status])
            ELSE upstream_log
       /\ UNCHANGED <<clients, jar, oa_n, dcr_issued, oa_issued, oa_callbacks>>

(***************************************************************************)
(* auth/token_validator.rs                                                 *)
(***************************************************************************)
Tasks == {1, 2}
Tokens == {"tokA", "tokB"}
Users == {"u1", "u2"}
TTL_SECONDS == 300
CacheCapacity == 100

NoUserInfo == [user_id |-> "", team_id |-> "", scopes |-> <<>>, cached_at |-> 0]

\* UserInfo::new: cached_at is the time of construction
UserInfoNew(user_id, team_id, scopes, t) ==
    [user_id |-> user_id, team_id |-> team_id, scopes |-> scopes, cached_at |-> t]

is_expired_AtTtl(user_info, t) == t - user_info.cached_at >= TTL_SECONDS

\* UserInfo::is_expired: now - self.cached_at > TTL_SECONDS
is_expired(user_info, t) == t - user_info.cached_at > TTL_SECONDS

\* position of a key in the LRU list, 0 when it is not there
LruIndex(c, k) ==
    IF \E i \in 1..Len(c) : c[i].key = k
    THEN CHOOSE i \in 1..Len(c) : c[i].key = k
    ELSE 0

LruWithout(c, i) == SubSeq(c, 1, i - 1) \o SubSeq(c, i + 1, Len(c))

LruGet_NoPromote(c, k) ==
    LET i == LruIndex(c, k)
    IN IF i = 0 THEN [value |-> None, cache |-> c]
       ELSE [value |-> Some(c[i].value), cache |-> c]

\* LruCache::get: the value, and the list with the entry moved to the front
LruGet(c, k) ==
    LET i == LruIndex(c, k)
    IN IF i = 0 THEN [value |-> None, cache |-> c]
       ELSE [value |-> Some(c[i].value), cache |-> <<c[i]>> \o LruWithout(c, i)]

\* LruCache::pop
LruPop(c, k) ==
    LET i == LruIndex(c, k) IN IF i = 0 THEN c ELSE LruWithout(c, i)

\* LruCache::put: replace and move to the front, or insert at the front after
\* dropping the least recently used entry of a full cache
LruPut(c, cap, k, v) ==
    LET i == LruIndex(c, k)
        e == [key |-> k, value |-> v]
    IN IF i # 0 THEN <<e>> \o LruWithout(c, i)
       ELSE IF Len(c) >= cap THEN <<e>> \o SubSeq(c, 1, cap - 1)
       ELSE <<e>> \o c

\* what the upstream introspection endpoint may answer: no response at all,
\* or a status with a body that does or does not parse as MiroTokenResponse
Statuses == {200, 204, 401, 403, 500}

\* StatusCode::is_success
IsSuccess(status) == 200 <= status /\ status < 300

IntrospectionAnswers ==
    {[kind |-> "net_error", status |-> 0, body_ok |-> FALSE, user_id |-> ""]}
    \cup {[kind |-> "response", status |-> s, body_ok |-> FALSE, user_id |-> ""] :
             s \in Statuses}
    \cup {[kind |-> "response", status |-> s, body_ok |-> TRUE, user_id |-> u] :
             s \in {st \in Statuses : IsSuccess(st)}, u \in Users}

\* AuthError::TokenInvalid and AuthError::TokenValidationFailed(message); the
\* message is its fixed text followed by what the code formats into it
AuthError(error, detail) ==
    [ok |-> FALSE, error |-> error, detail |-> detail, info |-> NoUserInfo]

Ok(user_info) == [ok |-> TRUE, error |-> "", detail |-> <<>>, info |-> user_info]

Is401_Never(status) == FALSE

\* status == StatusCode::UNAUTHORIZED
Is401(status) == status = 401

\* validate_with_miro once the answer is in
validate_with_miro(answer, t) ==
    IF answer.kind = "net_error" THEN
        AuthError("TokenValidationFailed", <<"HTTP request failed">>)
    ELSE IF Is401(answer.status) THEN
        AuthError("TokenInvalid", <<>>)
    ELSE IF ~IsSuccess(answer.status) THEN
        AuthError("TokenValidationFailed",
                  <<"Miro API returned status", answer.status>>)
    ELSE IF ~answer.body_ok THEN
        AuthError("TokenValidationFailed", <<"Failed to parse response">>)
    ELSE
        Ok(UserInfoNew(answer.user_id, "team", <<"boards:read", "boards:write">>, t))

NoResult == [ok |-> FALSE, error |-> "", detail |-> <<>>, info |-> NoUserInfo]

CacheKeys(c) == {c[i].key : i \in DOMAIN c}

\* the log of last uses after a use of the token that leaves these keys cached
UsedNow(used, keys, token) ==
    SelectSeq(used, LAMBDA k : k # token /\ k \in keys) \o <<token>>

NoHolder == 0

CacheGuardAtAwait_Held(task) == task

\* the guard of the lookup block at `validate_with_miro(token).await`: the
\* block has ended and dropped it
CacheGuardAtAwait(task) == NoHolder

TvInit ==
    /\ cache = <<>>
    /\ tv_lock = NoHolder
    /\ tv_pc = [t \in Tasks |-> "idle"]
    /\ tv_token = [t \in Tasks |-> ""]
    /\ tv_result = [t \in Tasks |-> NoResult]
    /\ tv_upstream = 0
    /\ tv_kinds = <<>>
    /\ tv_used = <<>>

\* validate_token up to the first await: the cache lookup under the mutex,
\* then either the return of the cached identity or the upstream request
ValidateBegin(task, token) ==
    /\ tv_pc[task] = "idle"
    /\ Len(tv_kinds) < MaxValidations
    /\ tv_lock = NoHolder
    /\ tv_token' = [tv_token EXCEPT ![task] = token]
    /\ LET got == LruGet(cache, token)
       IN IF IsSome(got.value) /\ ~is_expired(Unwrap(got.value), now)
          THEN /\ cache' = got.cache
               /\ tv_result' = [tv_result EXCEPT ![task] = Ok(Unwrap(got.value))]
               /\ tv_kinds' = Append(tv_kinds, "hit")
               /\ tv_used' = UsedNow(tv_used, CacheKeys(cache), token)
               /\ tv_lock' = NoHolder
               /\ UNCHANGED <<tv_pc, tv_upstream>>
          ELSE /\ cache' = IF IsSome(got.value) THEN LruPop(got.cache, token)
                           ELSE cache
               /\ tv_pc' = [tv_pc EXCEPT ![task] = "waiting"]
               /\ tv_upstream' = tv_upstream + 1
               /\ tv_kinds' = Append(tv_kinds,
                                     IF IsSome(got.value) THEN "stale" ELSE "miss")
               /\ tv_used' = SelectSeq(tv_used, LAMBDA k : k # token)
               /\ tv_lock' = CacheGuardAtAwait(task)
               /\ UNCHANGED tv_result

\* validate_token from the upstream answer on: validate_with_miro finishes,
\* a valid identity is put into the cache and returned
ValidateFinish(task, answer) ==
    /\ tv_pc[task] = "waiting"
    /\ LET r == validate_with_miro(answer, now)
       IN /\ r.ok => tv_lock \in {NoHolder, task}
          /\ tv_lock' = IF tv_lock = task THEN NoHolder ELSE tv_lock
          /\ cache' = IF r.ok
                      THEN LruPut(cache, CacheCapacity, tv_token[task], r.info)
                      ELSE cache
          /\ tv_used' = IF r.ok
                        THEN UsedNow(tv_used, CacheKeys(cache'), tv_token[task])
                        ELSE tv_used
          /\ tv_result' = [tv_result EXCEPT ![task] = r]
    /\ tv_pc' = [tv_pc EXCEPT ![task] = "idle"]
    /\ UNCHANGED <<tv_token, tv_upstream, tv_kinds>>

(***************************************************************************)
(* auth/bearer.rs and http_server.rs: the middleware of protected routes   *)
(***************************************************************************)
\* the Authorization header of a request: None, or its value as tokens
BearerHeader(token) == Some(<<"Bearer", " ", token>>)

MwHeaders ==
    {None, Some(<<"Basic", " ", "aWQxOnMx">>), Some(<<"Bearer">>),
     Some(<<"bearer-", "tokA">>)}
    \cup {BearerHeader(t) : t \in Tokens}

\* extract_bearer_token: the token of an "Authorization: Bearer <token>" header
extract_bearer_token(header) ==
    IF IsSome(header) /\ Len(Unwrap(header)) = 3
          /\ Unwrap(header)[1] = "Bearer" /\ Unwrap(header)[2] = " "
    THEN [ok |-> TRUE, token |-> Unwrap(header)[3]]
    ELSE [ok |-> FALSE, token |-> ""]

Realm == "realm=\"miro-mcp-server\""

\* WWW-Authenticate: Bearer realm="miro-mcp-server"
BearerChallenge == <<"Bearer", Realm>>

InvalidTokenChallenge_NoError == <<"Bearer", Realm>>

\* WWW-Authenticate: Bearer realm="miro-mcp-server", error="invalid_token"
InvalidTokenChallenge == <<"Bearer", Realm, "error=\"invalid_token\"">>

Unauthorized(challenge) ==
    [status |-> 401, www_authenticate |-> challenge, body |-> ""]

\* what the route's handler answers; the middleware passes it on unchanged
HandlerResponse == [status |-> 200, www_authenticate |-> <<>>, body |-> "handler"]

NoOutcome == [resp |-> [status |-> 0, www_authenticate |-> <<>>, body |-> ""],
              ctx |-> None]

\* the middleware's own answer: the handler is not run
Rejected(challenge) == [resp |-> Unauthorized(challenge), ctx |-> None]

\* request.extensions_mut().insert(..) twice, then next.run(request)
Continued(token, user_info) ==
    [resp |-> HandlerResponse,
     ctx |-> Some([token |-> token, user_info |-> user_info])]

ValidationPassed_Always(result) == TRUE

\* match validate_token(..) { Ok(user_info) => .., Err(e) => .. }
ValidationPassed(result) == result.ok

MwInit ==
    /\ mw_n = 0
    /\ mw_req = [t \in Tasks |-> None]
    /\ mw_out = [t \in Tasks |-> NoOutcome]
    /\ mw_calls = 0

\* what the middleware does once validate_token has returned
MwAfterValidation(task, token, result) ==
    IF ValidationPassed(result)
    THEN /\ mw_out' = [mw_out EXCEPT ![task] = Continued(token, result.info)]
         /\ mw_calls' = mw_calls + 1
    ELSE /\ mw_out' = [mw_out EXCEPT ![task] = Rejected(InvalidTokenChallenge)]
         /\ mw_calls' = mw_calls

\* bearer_auth_middleware_adr002 up to its first await
MwRequest(task, header) ==
    /\ tv_pc[task] = "idle"
    /\ mw_n < MaxRequests
    /\ mw_n' = mw_n + 1
    /\ mw_req' = [mw_req EXCEPT ![task] = header]
    /\ LET ext == extract_bearer_token(header)
       IN IF ~ext.ok
          THEN /\ mw_out' = [mw_out EXCEPT ![task] = Rejected(BearerChallenge)]
               /\ UNCHANGED <<mw_calls, tvVars>>
          ELSE /\ ValidateBegin(task, ext.token)
               /\ IF tv_pc'[task] = "idle"
                  THEN MwAfterValidation(task, ext.token, tv_result'[task])
                  ELSE /\ mw_out' = [mw_out EXCEPT ![task] = NoOutcome]
                       /\ UNCHANGED mw_calls

\* bearer_auth_middleware_adr002 from the upstream answer on
MwAnswer(task, answer) ==
    /\ ValidateFinish(task, answer)
    /\ MwAfterValidation(task, extract_bearer_token(mw_req[task]).token,
                         tv_result'[task])
    /\ UNCHANGED <<mw_n, mw_req>>

(***************************************************************************)
(* auth/types.rs, auth/token_store.rs, auth/oauth.rs: the stored token set *)
(***************************************************************************)
TokenSet(access_token, refresh_token, expires_at) ==
    [access_token |-> access_token, refresh_token |-> refresh_token,
     expires_at |-> expires_at]

NoTokenSet == TokenSet("", None, 0)

\* TokenSet::new
TokenSetNew(access_token, refresh_token, expires_in, t) ==
    TokenSet(access_token, refresh_token, t + expires_in)

TokenSetIsExpired_NoBuffer(tokens, t) == tokens.expires_at <= t

TokenSetIsExpired_Strict(tokens, t) == tokens.expires_at < t + 60

\* TokenSet::is_expired: expired if it expires within 60 seconds
TokenSetIsExpired(tokens, t) == tokens.expires_at <= t + 60

NoExpiryCall == [pc |-> "none", tokens |-> NoTokenSet, at |-> 0, expired |-> FALSE]

\* TokenSet::new(.., expires_in) is called at time t
ExpiryCreate(expires_in, t) ==
    /\ ex.pc = "none"
    /\ ex' = [ex EXCEPT !.pc = "created",
                        !.tokens = TokenSetNew("at0", Some("rt0"), expires_in, t)]

\* tokens.is_expired() is called at time t
ExpiryCheck(t) ==
    /\ ex.pc = "created"
    /\ ex' = [ex EXCEPT !.pc = "checked", !.at = t,
                        !.expired = TokenSetIsExpired(ex.tokens, t)]

FnInit ==
    /\ pk = NoPkceCall
    /\ ex = NoExpiryCall

(***************************************************************************)
(* auth/token_store.rs: CounterNonceSequence and TokenStore::encrypt       *)
(***************************************************************************)
\* u64::to_be_bytes
RECURSIVE ToBeBytes(_, _)
ToBeBytes(n, len) ==
    IF len = 0 THEN <<>> ELSE ToBeBytes(n \div 256, len - 1) \o <<n % 256>>

\* CounterNonceSequence::new
CounterNonceSequenceNew == [counter |-> 0]

\* CounterNonceSequence::advance: four zero bytes, then the counter; the
\* counter of a sequence is advanced once in its life, so wrapping_add(1)
\* never wraps
advance(seq) ==
    [nonce |-> <<0, 0, 0, 0>> \o ToBeBytes(seq.counter, 8),
     seq |-> [counter |-> seq.counter + 1]]

\* TokenStore::encrypt: a sealing key over a new nonce sequence, one seal
TokenStoreEncrypt(encryption_key, data) ==
    LET nonce_sequence == CounterNonceSequenceNew
        sealed == advance(nonce_sequence)
    IN [nonce |-> sealed.nonce,
        encrypted_data |-> AeadEncrypt(encryption_key, sealed.nonce, data)]

\* a TokenStore with this key encrypts `data` (in save)
NeTokenStoreEncrypt(encryption_key, data) ==
    LET e == TokenStoreEncrypt(encryption_key, data)
    IN enc_log' = Append(enc_log,
                         [by |-> "TokenStore", key |-> encryption_key,
                          nonce |-> e.nonce, plaintext |-> data,
                          out |-> e.encrypted_data])

\* a CookieManager with this key encrypts `data`; the rng draws a nonce it
\* has not drawn before
NeCookieEncrypt(key, nonce_bytes, data) ==
    /\ \A i \in 1..Len(enc_log) : enc_log[i].nonce # nonce_bytes
    /\ enc_log' = Append(enc_log,
                         [by |-> "CookieManager", key |-> key,
                          nonce |-> nonce_bytes, plaintext |-> to_vec(data),
                          out |-> encrypt(key, nonce_bytes, data)])

NeInit == enc_log = <<>>

(***************************************************************************)
(* miro/client.rs, mcp/auth_handler.rs, mcp/server.rs: the token file and  *)
(* the RwLock each MiroClient wraps around its TokenStore.  Every          *)
(* MiroMcpServer::new makes a TokenStore of the same path and a MiroClient *)
(* with a lock of its own; fs::read and fs::write take time.               *)
(***************************************************************************)
MiroClients == {"client1", "client2"}

RwFree == [readers |-> {}, writer |-> NoHolder]

\* RwLock::read is granted while no writer holds the lock
RwCanRead(l) == l.writer = NoHolder

\* RwLock::write is granted while nobody holds the lock
RwCanWrite(l) == l.writer = NoHolder /\ l.readers = {}

TfIdle == [pc |-> "idle", client |-> "", op |-> ""]

TfInit ==
    /\ tf = [t \in Tasks |-> TfIdle]
    /\ tf_lock = [c \in MiroClients |-> RwFree]
    /\ tf_n = 0

\* a task of `client` reaches `self.token_store.read().await` (op "load") or
\* `self.token_store.write().await` (op "save")
TfCall(task, client, op) ==
    /\ tf[task].pc = "idle"
    /\ tf_n < MaxFileOps
    /\ tf_n' = tf_n + 1
    /\ tf' = [tf EXCEPT ![task] = [pc |-> "locking", client |-> client, op |-> op]]
    /\ UNCHANGED tf_lock

\* the lock is granted; token_store.load() or token_store.save(..) begins
TfLock(task) ==
    /\ tf[task].pc = "locking"
    /\ LET c == tf[task].client
           l == tf_lock[c]
       IN IF tf[task].op = "load"
          THEN /\ RwCanRead(l)
               /\ tf_lock' = [tf_lock EXCEPT ![c].readers = @ \cup {task}]
          ELSE /\ RwCanWrite(l)
               /\ tf_lock' = [tf_lock EXCEPT ![c].writer = task]
    /\ tf' = [tf EXCEPT ![task].pc = "file"]
    /\ UNCHANGED tf_n

\* fs::read or fs::write has returned; the guard is dropped
TfDone(task) ==
    /\ tf[task].pc = "file"
    /\ LET c == tf[task].client
       IN tf_lock' = IF tf[task].op = "load"
                     THEN [tf_lock EXCEPT ![c].readers = @ \ {task}]
                     ELSE [tf_lock EXCEPT ![c].writer = NoHolder]
    /\ tf' = [tf EXCEPT ![task] = TfIdle]
    /\ UNCHANGED tf_n

(***************************************************************************)
(* oauth/code_storage.rs: store, take and the cleanup task as concurrent   *)
(* tasks on one CodeStorage.  Each operation waits for the write lock      *)
(* (granted first come, first served), runs its body without an await     *)
(* point and drops the guard when it returns.  The cleanup task sleeps in  *)
(* interval.tick(): the first tick is due at once, each next one           *)
(* CLEANUP_INTERVAL_SECS after the last.                                   *)
(***************************************************************************)
CLEANUP_INTERVAL_SECS == 60
Sweeper == 3
CsTasks == Tasks \cup {Sweeper}

NoPendingCodeExchange == PendingCodeExchange("", "", 0)

CtIdle ==
    [pc |-> "idle", op |-> "", code |-> "", pending |-> NoPendingCodeExchange,
     result |-> None, sid |-> 0, during |-> {}]

SwInit ==
    /\ cs_task = [t \in CsTasks |-> CtIdle]
    /\ lk_holder = NoHolder
    /\ lk_queue = <<>>
    /\ sw_next = 0

WriteGuardDropped_Kept(task) == task

\* the lock after the function returned: its guard is dropped
WriteGuardDropped(task) == NoHolder

\* a task calls store or take and reaches `self.store.write().await`
CtCall(task, op, code, pending) ==
    /\ cs_task[task].pc = "idle"
    /\ cs_task' = [cs_task EXCEPT ![task] =
                 [pc |-> "waiting", op |-> op, code |-> code, pending |-> pending,
                  result |-> None, sid |-> 0, during |-> {}]]
    /\ lk_queue' = Append(lk_queue, task)
    /\ UNCHANGED <<csVars, lk_holder, sw_next>>

\* the write lock is granted to the task that has waited longest
CtAcquire(task) ==
    /\ lk_holder = NoHolder
    /\ lk_queue # <<>>
    /\ Head(lk_queue) = task
    /\ lk_holder' = task
    /\ lk_queue' = Tail(lk_queue)
    /\ cs_task' = [cs_task EXCEPT ![task].pc = "holding"]
    /\ UNCHANGED <<csVars, sw_next>>

\* ghost: the other tasks whose take of the same code is in progress
SameCodeTakers(task) ==
    {u \in Tasks \ {task} : /\ cs_task[u].pc # "idle"
                            /\ cs_task[u].op = "take"
                            /\ cs_task[u].code = cs_task[task].code}

\* the body of store or take under the lock, and the return; what a take
\* handed to its caller stays with the task until its next call
CtBody(task) ==
    /\ lk_holder = task
    /\ cs_task[task].pc = "holding"
    /\ IF cs_task[task].op = "store"
       THEN CsStore(cs_task[task].code, cs_task[task].pending)
       ELSE CsTake(cs_task[task].code)
    /\ cs_task' = [cs_task EXCEPT ![task] =
                 IF IsSome(cs_last'.result)
                 THEN [CtIdle EXCEPT !.op = cs_task[task].op,
                                     !.code = cs_task[task].code,
                                     !.result = cs_last'.result, !.sid = cs_last'.sid,
                                     !.during = SameCodeTakers(task)]
                 ELSE CtIdle]
    /\ lk_holder' = WriteGuardDropped(task)
    /\ UNCHANGED <<lk_queue, sw_next>>

\* interval.tick() completes: the cleanup task calls cleanup_expired
SweeperWake ==
    /\ cs_task[Sweeper].pc = "idle"
    /\ now >= sw_next
    /\ sw_next' = sw_next + CLEANUP_INTERVAL_SECS
    /\ cs_task' = [cs_task EXCEPT ![Sweeper] = [CtIdle EXCEPT !.pc = "waiting",
                                                    !.op = "cleanup"]]
    /\ lk_queue' = Append(lk_queue, Sweeper)
    /\ UNCHANGED <<csVars, lk_holder>>

\* cleanup_expired under the lock, and the return to interval.tick()
SweeperBody ==
    /\ lk_holder = Sweeper
    /\ cs_task[Sweeper].pc = "holding"
    /\ CsCleanupExpired
    /\ cs_task' = [cs_task EXCEPT ![Sweeper] = CtIdle]
    /\ lk_holder' = WriteGuardDropped(Sweeper)
    /\ UNCHANGED <<lk_queue, sw_next>>

CcInit ==
    /\ NeInit
    /\ TfInit
    /\ SwInit

\* the token file: absent, present but not decryptable, or holding a token set
NoFile == [exists |-> FALSE, readable |-> FALSE, tokens |-> NoTokenSet]

UnreadableFile == [exists |-> TRUE, readable |-> FALSE, tokens |-> NoTokenSet]

FileOf(tokens) == [exists |-> TRUE, readable |-> TRUE, tokens |-> tokens]

\* TokenStore::load
StoreLoad(file) ==
    IF ~file.exists THEN [ok |-> FALSE, error |-> "NoToken", tokens |-> NoTokenSet]
    ELSE IF ~file.readable
    THEN [ok |-> FALSE, error |-> "EncryptionError", tokens |-> NoTokenSet]
    ELSE [ok |-> TRUE, error |-> "", tokens |-> file.tokens]

\* TokenStore::save: fs::write succeeds, or fails leaving the old file or a
\* truncated one
SaveOutcomes == {"ok", "failed_unchanged", "failed_truncated"}

StoreSave(file, tokens, outcome) ==
    CASE outcome = "ok" -> FileOf(tokens)
      [] outcome = "failed_unchanged" -> file
      [] outcome = "failed_truncated" -> UnreadableFile

\* what the upstream token endpoint answers to a refresh: an error, or a new
\* access token with or without a new refresh token and an expires_in
RefreshOutcomes ==
    {[ok |-> FALSE, rotate |-> FALSE, expires_in |-> None]}
    \cup {[ok |-> TRUE, rotate |-> FALSE, expires_in |-> None],
          [ok |-> TRUE, rotate |-> TRUE, expires_in |-> Some(60)]}

\* MiroOAuthClient::refresh_access_token on a successful answer, the k-th
\* token set the upstream issues
refresh_access_token(refresh_token_str, outcome, k, t) ==
    TokenSetNew("at" \o ToString(k),
                IF outcome.rotate THEN Some("rt" \o ToString(k))
                ELSE Some(refresh_token_str),
                IF IsSome(outcome.expires_in) THEN Unwrap(outcome.expires_in)
                ELSE 3600,
                t)

(***************************************************************************)
(* miro/client.rs: MiroClient::request, execute_request, get_valid_token   *)
(***************************************************************************)
\* what the resource API answers: a status, or nothing at all
ApiResponses == {"200", "204", "401", "429", "500", "net_error"}

NoCallResult == [done |-> FALSE, ok |-> FALSE, error |-> ""]

McIdle ==
    [pc |-> "idle", attempt |-> 0, tokens |-> NoTokenSet, new_tokens |-> NoTokenSet,
     sends |-> 0, refreshes |-> 0, result |-> NoCallResult]

GvNone ==
    [state |-> "none", file |-> NoFile, refresh_calls |-> 0,
     refresh_with |-> None, new_tokens |-> NoTokenSet, writes |-> 0,
     written |-> NoTokenSet, ok |-> FALSE, token |-> "", error |-> ""]

McInit ==
    /\ ts_file = NoFile
    /\ mc = [t \in Tasks |-> McIdle]
    /\ gv = [t \in Tasks |-> GvNone]
    /\ mc_n = 0
    /\ rf_n = 0

\* MiroClient::request returns: its locals are gone, its result stays
McReturn(task, ok, error) ==
    mc' = [mc EXCEPT ![task] =
              [McIdle EXCEPT !.result = [done |-> TRUE, ok |-> ok, error |-> error]]]

\* get_valid_token returned Err: execute_request and request pass it on
GvFailed(task, g, error) ==
    /\ gv' = [gv EXCEPT ![task] = [g EXCEPT !.state = "returned", !.ok = FALSE,
                                            !.error = error]]
    /\ McReturn(task, FALSE, error)

\* get_valid_token returned Ok(token): execute_request sends the request
GvSucceeded(task, g, token) ==
    /\ gv' = [gv EXCEPT ![task] = [g EXCEPT !.state = "returned", !.ok = TRUE,
                                            !.token = token]]
    /\ mc' = [mc EXCEPT ![task].pc = "resp", ![task].sends = @ + 1]

\* MiroClient::request is called; the first execute_request begins
RequestStart(task) ==
    /\ mc[task].pc = "idle"
    /\ mc_n < MaxClientRequests
    /\ mc_n' = mc_n + 1
    /\ mc' = [mc EXCEPT ![task] = [McIdle EXCEPT !.pc = "gvt_load", !.attempt = 1]]
    /\ gv' = [gv EXCEPT ![task] = GvNone]
    /\ UNCHANGED <<ts_file, rf_n>>

\* get_valid_token under the read lock: load, is_expired, and either the
\* return of the stored access token or the start of the refresh
GetValidTokenLoad(task) ==
    /\ mc[task].pc = "gvt_load"
    /\ LET l == StoreLoad(ts_file)
           g == [GvNone EXCEPT !.state = "running", !.file = ts_file]
       IN IF ~l.ok THEN GvFailed(task, g, l.error)
          ELSE IF ~TokenSetIsExpired(l.tokens, now)
          THEN GvSucceeded(task, g, l.tokens.access_token)
          ELSE IF IsNone(l.tokens.refresh_token) THEN GvFailed(task, g, "NoToken")
          ELSE /\ gv' = [gv EXCEPT ![task] =
                           [g EXCEPT !.refresh_calls = 1,
                                     !.refresh_with = l.tokens.refresh_token]]
               /\ mc' = [mc EXCEPT ![task].pc = "gvt_refresh",
                                   ![task].tokens = l.tokens,
                                   ![task].refreshes = @ + 1]
    /\ UNCHANGED <<ts_file, mc_n, rf_n>>

\* get_valid_token: the answer to the refresh arrives
GetValidTokenRefreshed(task, outcome) ==
    /\ mc[task].pc = "gvt_refresh"
    /\ IF ~outcome.ok
       THEN /\ GvFailed(task, gv[task], "OAuth2Error")
            /\ UNCHANGED rf_n
       ELSE LET new_tokens == refresh_access_token(
                                 Unwrap(mc[task].tokens.refresh_token),
                                 outcome, rf_n + 1, now)
            IN /\ mc' = [mc EXCEPT ![task].pc = "gvt_save",
                                   ![task].new_tokens = new_tokens]
               /\ gv' = [gv EXCEPT ![task].new_tokens = new_tokens]
               /\ rf_n' = rf_n + 1
    /\ UNCHANGED <<ts_file, mc_n>>

\* get_valid_token under the write lock: save, return the new access token
GetValidTokenSave(task, outcome) ==
    /\ mc[task].pc = "gvt_save"
    /\ ts_file' = StoreSave(ts_file, mc[task].new_tokens, outcome)
    /\ IF outcome = "ok"
       THEN GvSucceeded(task, [gv[task] EXCEPT !.writes = 1,
                                               !.written = mc[task].new_tokens],
                        mc[task].new_tokens.access_token)
       ELSE GvFailed(task, gv[task], "TokenStorageError")
    /\ UNCHANGED <<mc_n, rf_n>>

\* execute_request: the answer of the resource API arrives; request returns
\* it, or on a first 401 goes on to refresh
ExecuteRequestResponse(task, response) ==
    /\ mc[task].pc = "resp"
    /\ CASE response \in {"200", "204"} -> McReturn(task, TRUE, "")
         [] response = "401" ->
               IF mc[task].attempt = 1
               THEN mc' = [mc EXCEPT ![task].pc = "forced_load"]
               ELSE McReturn(task, FALSE, "Unauthorized")
         [] response = "429" -> McReturn(task, FALSE, "RateLimitExceeded")
         [] response = "500" -> McReturn(task, FALSE, "ApiError")
         [] response = "net_error" -> McReturn(task, FALSE, "HttpError")
    /\ gv' = IF mc'[task].pc = "idle" THEN [gv EXCEPT ![task] = GvNone] ELSE gv
    /\ UNCHANGED <<ts_file, mc_n, rf_n>>

\* request after Err(Unauthorized): load under the read lock, start a refresh
RequestForcedLoad(task) ==
    /\ mc[task].pc = "forced_load"
    /\ LET l == StoreLoad(ts_file)
       IN IF ~l.ok THEN McReturn(task, FALSE, l.error)
          ELSE IF IsNone(l.tokens.refresh_token)
          THEN McReturn(task, FALSE, "Unauthorized")
          ELSE mc' = [mc EXCEPT ![task].pc = "forced_refresh",
                                ![task].tokens = l.tokens,
                                ![task].refreshes = @ + 1]
    /\ gv' = IF mc'[task].pc = "idle" THEN [gv EXCEPT ![task] = GvNone] ELSE gv
    /\ UNCHANGED <<ts_file, mc_n, rf_n>>

\* request: the answer to the forced refresh arrives
RequestForcedRefreshed(task, outcome) ==
    /\ mc[task].pc = "forced_refresh"
    /\ IF ~outcome.ok
       THEN /\ McReturn(task, FALSE, "OAuth2Error")
            /\ UNCHANGED rf_n
       ELSE /\ mc' = [mc EXCEPT ![task].pc = "forced_save",
                                ![task].new_tokens =
                                    refresh_access_token(
                                       Unwrap(mc[task].tokens.refresh_token),
                                       outcome, rf_n + 1, now)]
            /\ rf_n' = rf_n + 1
    /\ gv' = IF mc'[task].pc = "idle" THEN [gv EXCEPT ![task] = GvNone] ELSE gv
    /\ UNCHANGED <<ts_file, mc_n>>

\* request under the write lock: save, then the second execute_request begins
RequestForcedSave(task, outcome) ==
    /\ mc[task].pc = "forced_save"
    /\ ts_file' = StoreSave(ts_file, mc[task].new_tokens, outcome)
    /\ IF outcome = "ok"
       THEN mc' = [mc EXCEPT ![task].pc = "gvt_load", ![task].attempt = 2]
       ELSE McReturn(task, FALSE, "TokenStorageError")
    /\ gv' = IF mc'[task].pc = "idle" THEN [gv EXCEPT ![task] = GvNone] ELSE gv
    /\ UNCHANGED <<mc_n, rf_n>>

CsInit ==
    /\ store = <<>>
    /\ cs_seq = 0
    /\ cs_returned = <<>>
    /\ cs_last = [op |-> "new", code |-> "", result |-> None, sid |-> 0,
                  removed |-> 0]

InitCodeStorage ==
    /\ now = 0
    /\ CsInit
    /\ OaInit
    /\ TvInit
    /\ MwInit
    /\ McInit
    /\ CkInit
    /\ FnInit
    /\ CcInit

StoreStep ==
    /\ \E code \in Codes, pc \in Codes, v \in Verifiers, e \in ExpiryTimes :
          CsStore(code, PendingCodeExchange(pc, v, e))
    /\ UNCHANGED <<now, oaVars, tvVars, mwVars, mcVars, ckVars, fnVars, ccVars>>

TakeStep ==
    /\ \E code \in Codes : CsTake(code)
    /\ UNCHANGED <<now, oaVars, tvVars, mwVars, mcVars, ckVars, fnVars, ccVars>>

CleanupStep ==
    /\ CsCleanupExpired
    /\ UNCHANGED <<now, oaVars, tvVars, mwVars, mcVars, ckVars, fnVars, ccVars>>

TickCodeStorage ==
    /\ Tick
    /\ UNCHANGED <<csVars, oaVars, tvVars, mwVars, mcVars, ckVars, fnVars, ccVars>>

NextCodeStorage ==
    \/ StoreStep
    \/ TakeStep
    \/ CleanupStep
    \/ TickCodeStorage

SpecCodeStorage == InitCodeStorage /\ [][NextCodeStorage]_vars

(***************************************************************************)
(* SpecOAuth: authorization flows run against the server.  User agents     *)
(* send back the cookies the server set; the client authenticates as the   *)
(* statically configured client.                                           *)
(***************************************************************************)
InitOAuth ==
    /\ now = 0
    /\ CsInit
    /\ OaInit
    /\ TvInit
    /\ MwInit
    /\ McInit
    /\ CkInit
    /\ FnInit
    /\ CcInit

\* the redirect_uri and the code_verifier a client sends to /oauth/token
FlowTokenEchoes ==
    {[redirect_uri |-> "https://app/cb", code_verifier |-> None],
     [redirect_uri |-> "https://other/cb", code_verifier |-> Some("v0")]}

FlowCookieHeaders(j, name) == {<<>>} \cup {<<[name |-> name, value |-> v]>> : v \in j}

Authorize ==
    /\ Cardinality(jar) < MaxCookies
    /\ oa_n < Len(StateNonceSeq)
    /\ \E params \in AuthorizeParams, enc_nonce \in EncNonces :
          AuthorizeApply(params, enc_nonce)
    /\ UNCHANGED <<now, csVars, tvVars, mwVars, mcVars, ckVars, fnVars, ccVars>>

Callback ==
    /\ Cardinality(jar) < MaxCookies
    /\ Len(oa_callbacks) < MaxCallbacks
    /\ \E code \in Codes, n \in 1..Len(StateNonceSeq),
          cookie \in FlowCookieHeaders(jar, STATE_COOKIE_NAME),
          enc_nonce \in EncNonces :
          /\ n <= oa_n
          /\ CallbackApply([code |-> Some(code), state |-> Some(StateNonceSeq[n]),
                            error |-> None],
                           [cookie |-> cookie, authorization |-> NoAuthorization],
                           enc_nonce)
    /\ UNCHANGED <<now, csVars, tvVars, mwVars, mcVars, ckVars, fnVars, ccVars>>

Token ==
    /\ Len(upstream_log) < MaxUpstreamCalls
    /\ \E code \in Codes,
          cookie \in FlowCookieHeaders(jar, PENDING_CODE_COOKIE_NAME),
          outcome \in {"ok", "non2xx"},
          echo \in FlowTokenEchoes :
          TokenApply([grant_type |-> "authorization_code", code |-> code,
                      redirect_uri |-> echo.redirect_uri,
                      client_id |-> StaticClientId, client_secret |-> None,
                      code_verifier |-> echo.code_verifier],
                     [cookie |-> cookie, authorization |-> NoAuthorization],
                     outcome)
    /\ UNCHANGED <<now, csVars, tvVars, mwVars, mcVars, ckVars, fnVars, ccVars>>

TickOAuth ==
    /\ Tick
    /\ UNCHANGED <<csVars, oaVars, tvVars, mwVars, mcVars, ckVars, fnVars, ccVars>>

NextOAuth ==
    \/ Authorize
    \/ Callback
    \/ Token
    \/ TickOAuth

SpecOAuth == InitOAuth /\ [][NextOAuth]_vars

(***************************************************************************)
(* SpecEndpoints: one request to one endpoint.  The request, the registry  *)
(* the server has and the time are drawn at the start; the cookies offered *)
(* are built from cookies /oauth/authorize and /oauth/callback can issue.  *)
(***************************************************************************)
EndpointTimes == {0, 150, 300, 301}

\* state cookies /oauth/authorize issues
IssuableStateCookies ==
    {Encrypt(ServerKey, n, ToJsonOAuthState(OAuthState(s, "v1", u))) :
        n \in {1}, s \in {"n1", "n2"}, u \in {"https://app/cb"}}

\* pending-code cookies /oauth/callback issues (at time 0)
IssuablePendingCookies ==
    {Encrypt(ServerKey, n,
             ToJsonPending(PendingCodeExchange(c, "v1", PENDING_CODE_MAX_AGE))) :
        n \in {1}, c \in Codes}

IssuableCookies == IssuableStateCookies \cup IssuablePendingCookies

\* registries that registrations lead to
Registries ==
    {<<>>} \cup
    {RegistryRegister(<<>>,
        Unwrap(register_handler(
                 RegistrationRequest("app", <<HttpsUri>>, <<>>, <<>>, None),
                 "id1", secret, 0).client)) : secret \in Secrets}

EndpointRequests ==
    {[op |-> "register", params |-> p, headers |-> NoHeaders] :
        p \in RegistrationRequests}
    \cup {[op |-> "authorize", params |-> p, headers |-> NoHeaders] :
            p \in AuthorizeParams}
    \cup {[op |-> "callback", params |-> p,
           headers |-> [cookie |-> c, authorization |-> NoAuthorization]] :
            p \in CallbackParams, c \in CookieHeaders(IssuableCookies)}
    \cup {[op |-> "token", params |-> p,
           headers |-> [cookie |-> c, authorization |-> a]] :
            p \in TokenRequests, c \in CookieHeaders(IssuableCookies),
            a \in AuthorizationHeaders}

InitEndpoints ==
    /\ now \in EndpointTimes
    /\ CsInit
    /\ clients \in Registries
    /\ jar = {}
    /\ oa_n = 0
    /\ \E r \in EndpointRequests :
          oa_req = [op |-> r.op, at |-> now, params |-> r.params,
                    headers |-> r.headers]
    /\ oa_resp = NoResponse
    /\ oa_called = FALSE
    /\ upstream_log = <<>>
    /\ dcr_issued = {[client_id |-> clients[id].client_id,
                      client_secret |-> clients[id].client_secret] :
                        id \in DOMAIN clients}
    /\ oa_issued = {}
    /\ oa_callbacks = <<>>
    /\ TvInit
    /\ MwInit
    /\ McInit
    /\ CkInit
    /\ FnInit
    /\ CcInit

HandleRegister ==
    /\ oa_req.op = "register" /\ oa_resp = NoResponse
    /\ \E id \in ClientIds \ DOMAIN clients, secret \in Secrets :
          RegisterApply(oa_req.params, id, secret)
    /\ UNCHANGED <<now, csVars, tvVars, mwVars, mcVars, ckVars, fnVars, ccVars>>

HandleAuthorize ==
    /\ oa_req.op = "authorize" /\ oa_resp = NoResponse
    /\ \E enc_nonce \in EncNonces : AuthorizeApply(oa_req.params, enc_nonce)
    /\ UNCHANGED <<now, csVars, tvVars, mwVars, mcVars, ckVars, fnVars, ccVars>>

HandleCallback ==
    /\ oa_req.op = "callback" /\ oa_resp = NoResponse
    /\ Len(oa_callbacks) < MaxCallbacks
    /\ \E enc_nonce \in EncNonces :
          CallbackApply(oa_req.params, oa_req.headers, enc_nonce)
    /\ UNCHANGED <<now, csVars, tvVars, mwVars, mcVars, ckVars, fnVars, ccVars>>

HandleToken ==
    /\ oa_req.op = "token" /\ oa_resp = NoResponse
    /\ \E outcome \in UpstreamOutcomes :
          TokenApply(oa_req.params, oa_req.headers, outcome)
    /\ UNCHANGED <<now, csVars, tvVars, mwVars, mcVars, ckVars, fnVars, ccVars>>

NextEndpoints ==
    \/ HandleRegister
    \/ HandleAuthorize
    \/ HandleCallback
    \/ HandleToken

SpecEndpoints == InitEndpoints /\ [][NextEndpoints]_vars

(***************************************************************************)
(* SpecValidator: tasks calling validate_token on one shared validator     *)
(***************************************************************************)
InitValidator ==
    /\ now = 0
    /\ CsInit
    /\ OaInit
    /\ TvInit
    /\ MwInit
    /\ McInit
    /\ CkInit
    /\ FnInit
    /\ CcInit

Validate ==
    /\ \E task \in Tasks, token \in Tokens : ValidateBegin(task, token)
    /\ UNCHANGED <<now, csVars, oaVars, mwVars, mcVars, ckVars, fnVars, ccVars>>

UpstreamAnswer ==
    /\ \E task \in Tasks, answer \in IntrospectionAnswers :
          ValidateFinish(task, answer)
    /\ UNCHANGED <<now, csVars, oaVars, mwVars, mcVars, ckVars, fnVars, ccVars>>

TickValidator ==
    /\ Tick
    /\ UNCHANGED <<csVars, oaVars, tvVars, mwVars, mcVars, ckVars, fnVars, ccVars>>

NextValidator ==
    \/ Validate
    \/ UpstreamAnswer
    \/ TickValidator

SpecValidator == InitValidator /\ [][NextValidator]_vars

(***************************************************************************)
(* SpecValidatorFull: the same validator after it has validated            *)
(* CacheCapacity - 1 other tokens, the first of them longest ago.          *)
(***************************************************************************)
FillerCount == CacheCapacity - 1

Filler(i) == "filler" \o ToString(i)

\* most recently used first: Filler(FillerCount) is the least recently used
FullCache ==
    [i \in 1..FillerCount |->
        [key |-> Filler(i),
         value |-> UserInfoNew("u1", "team", <<"boards:read", "boards:write">>, 0)]]

FullUsed == [i \in 1..FillerCount |-> Filler(FillerCount + 1 - i)]

\* the tokens presented: new ones and the least recently used cached one
FullTokens == Tokens \cup {Filler(FillerCount)}

InitValidatorFull ==
    /\ now = 0
    /\ CsInit
    /\ OaInit
    /\ cache = FullCache
    /\ tv_lock = NoHolder
    /\ tv_pc = [t \in Tasks |-> "idle"]
    /\ tv_token = [t \in Tasks |-> ""]
    /\ tv_result = [t \in Tasks |-> NoResult]
    /\ tv_upstream = 0
    /\ tv_kinds = <<>>
    /\ tv_used = FullUsed
    /\ MwInit
    /\ McInit
    /\ CkInit
    /\ FnInit
    /\ CcInit

ValidateFull ==
    /\ Len(tv_kinds) < MaxFullValidations
    /\ \E task \in Tasks, token \in FullTokens : ValidateBegin(task, token)
    /\ UNCHANGED <<now, csVars, oaVars, mwVars, mcVars, ckVars, fnVars, ccVars>>

NextValidatorFull ==
    \/ ValidateFull
    \/ UpstreamAnswer

SpecValidatorFull == InitValidatorFull /\ [][NextValidatorFull]_vars

(***************************************************************************)
(* Claims about CodeStorage                                                *)
(***************************************************************************)

\* what one take(code) does to an entry that is in the map and not expired
C1_TakePost(code) ==
    /\ (code \in DOMAIN store /\ ~(now > store[code].pending.expires_at))
          => cs_last'.result = Some(store[code].pending)
    /\ code \notin DOMAIN store => cs_last'.result = None
    /\ code \notin DOMAIN store'

\* C1: a take of a stored, unexpired code returns the stored entry and
\* removes it, a take of a code that is not in the map returns None, a code
\* only enters the map by a store of that code, and over any sequence of
\* store, take and cleanup_expired no stored entry is returned by take twice.
C1_TakeAtMostOnce ==
    /\ [](\A i, j \in DOMAIN cs_returned :
            cs_returned[i].sid = cs_returned[j].sid => i = j)
    /\ [][\A code \in Codes : CsTake(code) => C1_TakePost(code)]_vars
    /\ [][\A code \in Codes :
            (code \in DOMAIN store' /\ code \notin DOMAIN store)
               => (cs_last'.op = "store" /\ cs_last'.code = code)]_vars

\* one entry was stored, take returned it, and the next take of the same code
\* found nothing
C1_Witness ==
    /\ cs_seq = 1
    /\ Len(cs_returned) = 1
    /\ cs_last = [op |-> "take", code |-> cs_returned[1].code,
                  result |-> None, sid |-> 0, removed |-> 0]

\* C2: take never returns an entry whose expires_at is earlier than now; a
\* take that finds such an entry in the map (cleanup_expired has not removed
\* it) returns None and the entry is gone from the map afterwards.
C2_TakeNeverExpired ==
    [][\A code \in Codes : CsTake(code) =>
          /\ IsSome(cs_last'.result)
                => ~(Unwrap(cs_last'.result).expires_at < now)
          /\ (code \in DOMAIN store /\ store[code].pending.expires_at < now)
                => (cs_last'.result = None /\ code \notin DOMAIN store')]_vars

\* a take found an expired entry still in the map and returned None
C2_Witness ==
    /\ cs_last.op = "take"
    /\ cs_last.sid > 0
    /\ cs_last.result = None
    /\ cs_last.code \notin DOMAIN store

(***************************************************************************)
(* Claims about the OAuth endpoints                                        *)
(***************************************************************************)
Handled(op) == oa_req.op = op /\ oa_resp # NoResponse

StateCookieOf(req) == extract_cookie(req.headers, STATE_COOKIE_NAME)
PendingCookieOf(req) == extract_cookie(req.headers, PENDING_CODE_COOKIE_NAME)

\* the response is the invalid-state error and carries nothing else
InvalidStateOnly(r) ==
    /\ r.error = "InvalidState"
    /\ r.status = 400
    /\ r.set_cookies = <<>>
    /\ r.location = NoUrl
    /\ r.token = NoToken

\* a callback without error parameter whose state cookie decrypts under the
\* server key, but whose state parameter is missing or is not the nonce in it
C3_Case ==
    /\ Handled("callback")
    /\ IsNone(oa_req.params.error)
    /\ IsSome(StateCookieOf(oa_req))
    /\ DecryptOk(ServerKey, Unwrap(StateCookieOf(oa_req)), "OAuthState")
    /\ \/ IsNone(oa_req.params.state)
       \/ Unwrap(oa_req.params.state) # Unwrap(StateCookieOf(oa_req)).json.state

\* C3: such a callback is answered with the invalid-state error whatever the
\* code parameter is; the response sets no cookie and has no Location.
C3_StateMismatchRejected == C3_Case => InvalidStateOnly(oa_resp)

\* the mismatch case with a code present and a state parameter present
C3_Witness ==
    /\ C3_Case
    /\ IsSome(oa_req.params.code)
    /\ IsSome(oa_req.params.state)
    /\ oa_resp.msg = <<"State parameter mismatch">>

\* a callback without error parameter whose state cookie is absent or does
\* not decrypt under the server key into an OAuthState
C4_Case ==
    /\ Handled("callback")
    /\ IsNone(oa_req.params.error)
    /\ \/ IsNone(StateCookieOf(oa_req))
       \/ ~DecryptOk(ServerKey, Unwrap(StateCookieOf(oa_req)), "OAuthState")

C5_CodeSingleUse ==
    \A i, j \in DOMAIN upstream_log :
        (i < j /\ upstream_log[i].status = 200)
           => ~(/\ upstream_log[j].code = upstream_log[i].code
                /\ upstream_log[j].cookie = upstream_log[i].cookie)

\* the Basic header carries credentials of the form id:secret
BasicSecret(auth) ==
    IF auth.present /\ auth.ascii /\ auth.basic /\ auth.b64 /\ auth.utf8
    THEN SplitOnce(auth.decoded)
    ELSE None

\* the client secrets a token request supplies, by header or by form body
SuppliedSecrets(req) ==
    (IF IsSome(BasicSecret(req.headers.authorization))
     THEN {Unwrap(BasicSecret(req.headers.authorization))[2]} ELSE {})
    \cup (IF IsSome(req.params.client_secret)
          THEN {Unwrap(req.params.client_secret)} ELSE {})

\* the requests C6 allows past client authentication
C6_Allowed(req) ==
    \/ \E secret \in SuppliedSecrets(req) :
          RegistryValidate(clients, req.params.client_id, secret)
    \/ /\ SuppliedSecrets(req) = {}
       /\ req.params.client_id = StaticClientId

\* C6 (as claimed): a token request passes client authentication only if a
\* supplied secret validates against the registry, or no secret is supplied
\* and client_id is the configured one; every other request gets 401 and
\* makes no upstream call.
C6_ClientAuthentication ==
    (Handled("token") /\ oa_req.params.grant_type = "authorization_code"
        /\ ~C6_Allowed(oa_req))
      => (/\ oa_resp.status = 401
          /\ oa_resp.msg = <<"Invalid client credentials">>
          /\ ~oa_called)

\* no pending code exchange for the presented code reaches the handler
NoPendingFor(req) ==
    \/ IsNone(PendingCookieOf(req))
    \/ ~DecryptOk(ServerKey, Unwrap(PendingCookieOf(req)), "PendingCodeExchange")
    \/ Unwrap(PendingCookieOf(req)).json.code # req.params.code

C7_Case ==
    /\ Handled("token")
    /\ oa_req.params.grant_type = "authorization_code"
    /\ IsValidClient(clients, oa_req.headers, oa_req.params)
    /\ NoPendingFor(oa_req)

\* C7: an authenticated authorization_code request whose code has no pending
\* code exchange is answered 401 and makes no upstream call.
C7_UnknownCodeRejected ==
    C7_Case => (oa_resp.status = 401 /\ ~oa_called /\ oa_resp.token = NoToken)

\* the cookie holds a live pending exchange, but for another code
C7_Witness ==
    /\ C7_Case
    /\ IsSome(PendingCookieOf(oa_req))
    /\ DecryptOk(ServerKey, Unwrap(PendingCookieOf(oa_req)), "PendingCodeExchange")
    /\ oa_req.at <= Unwrap(PendingCookieOf(oa_req)).json.expires_at
    /\ oa_resp.msg = <<"Authorization code mismatch">>

C8_Case ==
    /\ Handled("token")
    /\ oa_req.params.grant_type # "authorization_code"

\* C8: a token request with another grant_type is refused as unsupported
\* (invalid request, not unauthorized) whether or not its client credentials
\* or its pending code are good, and makes no upstream call.
C8_GrantTypeRejected ==
    C8_Case => (/\ oa_resp.error = "InvalidRequest"
                /\ oa_resp.status = 400
                /\ oa_resp.msg = <<"Unsupported grant_type", oa_req.params.grant_type>>
                /\ oa_resp.token = NoToken
                /\ ~oa_called)

\* client_credentials from a client that would fail authentication, with a
\* live pending code for the presented code
C8_Witness ==
    /\ C8_Case
    /\ oa_req.params.grant_type = "client_credentials"
    /\ ~IsValidClient(clients, oa_req.headers, oa_req.params)
    /\ ~NoPendingFor(oa_req)
    /\ oa_req.at <= Unwrap(PendingCookieOf(oa_req)).json.expires_at

C9_Case ==
    /\ Handled("authorize")
    /\ oa_req.params.response_type # "code"

\* C9: an authorize request with a response_type other than "code" gets the
\* invalid-request error, no state cookie and no redirect.
C9_ResponseTypeRejected ==
    C9_Case => (/\ oa_resp.error = "InvalidRequest"
                /\ oa_resp.status = 400
                /\ oa_resp.set_cookies = <<>>
                /\ oa_resp.location = NoUrl
                /\ jar = {})

C9_Witness == C9_Case /\ oa_req.params.response_type = "token"

(***************************************************************************)
(* Claims about the token validator                                        *)
(***************************************************************************)

\* the cached entry of a token, as a set (empty when the token is not cached)
CachedInfos(token) == {cache[i].value : i \in {k \in 1..Len(cache) : cache[k].key = token}}

\* C10: a validate_token for a token whose cached entry is at most 5 minutes
\* old returns the cached identity and makes no upstream call; a
\* validate_token for a token whose cached entry is older than 5 minutes
\* calls upstream again.
C10_CacheHitWithinTtl ==
    [][\A task \in Tasks, token \in Tokens :
          ValidateBegin(task, token) =>
             \A info \in CachedInfos(token) :
                /\ now - info.cached_at <= 300
                      => /\ tv_result'[task] =
                                      [ok |-> TRUE, error |-> "", detail |-> <<>>,
                                       info |-> info]
                         /\ tv_pc'[task] = "idle"
                         /\ tv_upstream' = tv_upstream
                /\ now - info.cached_at > 300
                      => /\ tv_pc'[task] = "waiting"
                         /\ tv_upstream' = tv_upstream + 1]_vars

\* one upstream call, then a cache hit, and after the TTL a call that went
\* upstream again
C10_Witness ==
    /\ Len(tv_kinds) = 3
    /\ tv_kinds[1] = "miss"
    /\ tv_kinds[2] = "hit"
    /\ tv_kinds[3] = "stale"
    /\ tv_upstream = 2

(***************************************************************************)
(* SpecRegistration: clients registering one after another                 *)
(***************************************************************************)
InitRegistration ==
    /\ now = 0
    /\ CsInit
    /\ OaInit
    /\ TvInit
    /\ MwInit
    /\ McInit
    /\ CkInit
    /\ FnInit
    /\ CcInit

SequenceRequests ==
    {RegistrationRequest(name, uris, <<>>, <<>>, None) :
        name \in {"", "app"},
        uris \in {<<HttpsUri>>, <<HttpUri>>, <<LocalhostUri>>}}

\* POST /register; the generated client_id is one no client has yet
Register ==
    /\ \E req \in SequenceRequests, id \in ClientIds \ DOMAIN clients,
          secret \in Secrets : RegisterApply(req, id, secret)
    /\ UNCHANGED <<now, csVars, tvVars, mwVars, mcVars, ckVars, fnVars, ccVars>>

TickRegistration ==
    /\ Tick
    /\ UNCHANGED <<csVars, oaVars, tvVars, mwVars, mcVars, ckVars, fnVars, ccVars>>

NextRegistration ==
    \/ Register
    \/ TickRegistration

SpecRegistration == InitRegistration /\ [][NextRegistration]_vars

(***************************************************************************)
(* SpecMiroClient: calls of MiroClient::request, two tasks sharing one      *)
(* client and token store.  The clock stands still; the stored token set    *)
(* expires at 60 (expired now), at 61 (one second outside the buffer) or    *)
(* much later.                                                              *)
(***************************************************************************)
InitialFiles ==
    {NoFile, FileOf(TokenSet("at0", None, 60)),
     FileOf(TokenSet("at0", Some("rt0"), 60)),
     FileOf(TokenSet("at0", Some("rt0"), 61))}

InitMiroClient ==
    /\ now = 0
    /\ CsInit
    /\ OaInit
    /\ TvInit
    /\ MwInit
    /\ ts_file \in InitialFiles
    /\ mc = [t \in Tasks |-> McIdle]
    /\ gv = [t \in Tasks |-> GvNone]
    /\ mc_n = 0
    /\ rf_n = 0
    /\ CkInit
    /\ FnInit
    /\ CcInit

McOthers == <<now, csVars, oaVars, tvVars, mwVars, ckVars, fnVars, ccVars>>

ClientRequest ==
    /\ \E task \in Tasks : RequestStart(task)
    /\ UNCHANGED McOthers

ClientLoad ==
    /\ \E task \in Tasks : GetValidTokenLoad(task)
    /\ UNCHANGED McOthers

ClientRefreshed ==
    /\ \E task \in Tasks, outcome \in RefreshOutcomes :
          GetValidTokenRefreshed(task, outcome)
    /\ UNCHANGED McOthers

ClientSave ==
    /\ \E task \in Tasks, outcome \in SaveOutcomes : GetValidTokenSave(task, outcome)
    /\ UNCHANGED McOthers

ClientResponse ==
    /\ \E task \in Tasks, response \in ApiResponses :
          ExecuteRequestResponse(task, response)
    /\ UNCHANGED McOthers

ClientForcedLoad ==
    /\ \E task \in Tasks : RequestForcedLoad(task)
    /\ UNCHANGED McOthers

ClientForcedRefreshed ==
    /\ \E task \in Tasks, outcome \in RefreshOutcomes :
          RequestForcedRefreshed(task, outcome)
    /\ UNCHANGED McOthers

ClientForcedSave ==
    /\ \E task \in Tasks, outcome \in SaveOutcomes : RequestForcedSave(task, outcome)
    /\ UNCHANGED McOthers

NextMiroClient ==
    \/ ClientRequest
    \/ ClientLoad
    \/ ClientRefreshed
    \/ ClientSave
    \/ ClientResponse
    \/ ClientForcedLoad
    \/ ClientForcedRefreshed
    \/ ClientForcedSave

SpecMiroClient == InitMiroClient /\ [][NextMiroClient]_vars

(***************************************************************************)
(* SpecCookieManager: one payload is made, perhaps altered in one byte,    *)
(* and decrypted under the same or another key                             *)
(***************************************************************************)
\* the longest nonce || ciphertext || tag: a string of MaxMessageLen escaped
\* characters between quotes, a comma and two digits
MaxPayloadLen == NONCE_LEN + TAG_LEN + 2 * MaxMessageLen + 5
ByteDeltas == {1, 255}

InitCookieManager ==
    /\ now = 0
    /\ CsInit
    /\ OaInit
    /\ TvInit
    /\ MwInit
    /\ McInit
    /\ CkInit
    /\ FnInit
    /\ CcInit

CkOthers == <<now, csVars, oaVars, tvVars, mwVars, mcVars, fnVars, ccVars>>

EncryptCookie ==
    /\ \E key \in CookieKeys, nonce_bytes \in CookieNonces, data \in CookieDatas :
          CookieEncrypt(key, nonce_bytes, data)
    /\ UNCHANGED CkOthers

AlterCookie ==
    /\ \E i \in 1..MaxPayloadLen, delta \in ByteDeltas : CookieAlter(i, delta)
    /\ UNCHANGED CkOthers

DecryptCookie ==
    /\ \E key \in CookieKeys : CookieDecrypt(key)
    /\ UNCHANGED CkOthers

MalformCookie ==
    /\ \E kind \in {"short", "badb64"} : CookieMalform(kind)
    /\ UNCHANGED CkOthers

NextCookieManager ==
    \/ EncryptCookie
    \/ AlterCookie
    \/ DecryptCookie
    \/ MalformCookie

SpecCookieManager == InitCookieManager /\ [][NextCookieManager]_vars

(***************************************************************************)
(* SpecPkce: a PKCE pair is generated and one validate_pkce call is made   *)
(***************************************************************************)
PkceVerifiers == {VerifierSeq[i] : i \in 1..Len(VerifierSeq)}
PkceChallenges == {S256(v) : v \in PkceVerifiers} \cup PkceVerifiers
PkceMethods == {"S256", "plain", "s256", ""}

InitPkce ==
    /\ now = 0
    /\ CsInit
    /\ OaInit
    /\ TvInit
    /\ MwInit
    /\ McInit
    /\ CkInit
    /\ FnInit
    /\ CcInit

PkOthers == <<now, csVars, oaVars, tvVars, mwVars, mcVars, ckVars, ex, ccVars>>

GeneratePair ==
    /\ \E verifier \in PkceVerifiers : PkceGenerate(verifier)
    /\ UNCHANGED PkOthers

ValidatePkce ==
    /\ \E code_verifier \in PkceVerifiers, code_challenge \in PkceChallenges,
          method \in PkceMethods :
          PkceValidate(code_verifier, code_challenge, method)
    /\ UNCHANGED PkOthers

NextPkce ==
    \/ GeneratePair
    \/ ValidatePkce

SpecPkce == InitPkce /\ [][NextPkce]_vars

(***************************************************************************)
(* SpecTokenSet: a token set is created and asked once whether it expired  *)
(***************************************************************************)
ExpiryClock == 0..2

InitTokenSet == InitPkce

ExOthers == <<now, csVars, oaVars, tvVars, mwVars, mcVars, ckVars, pk, ccVars>>

CreateTokenSet ==
    /\ \E expires_in \in 0..MaxExpiresIn, t \in ExpiryClock : ExpiryCreate(expires_in, t)
    /\ UNCHANGED ExOthers

CheckExpired ==
    /\ \E t \in ExpiryClock : ExpiryCheck(t)
    /\ UNCHANGED ExOthers

NextTokenSet ==
    \/ CreateTokenSet
    \/ CheckExpired

SpecTokenSet == InitTokenSet /\ [][NextTokenSet]_vars

(***************************************************************************)
(* SpecMiddleware: requests to protected routes, two at a time             *)
(***************************************************************************)
InitMiddleware ==
    /\ now = 0
    /\ CsInit
    /\ OaInit
    /\ TvInit
    /\ MwInit
    /\ McInit
    /\ CkInit
    /\ FnInit
    /\ CcInit

ProtectedRequest ==
    /\ \E task \in Tasks, header \in MwHeaders : MwRequest(task, header)
    /\ UNCHANGED <<now, csVars, oaVars, mcVars, ckVars, fnVars, ccVars>>

IntrospectionAnswer ==
    /\ \E task \in Tasks, answer \in IntrospectionAnswers : MwAnswer(task, answer)
    /\ UNCHANGED <<now, csVars, oaVars, mcVars, ckVars, fnVars, ccVars>>

NextMiddleware ==
    \/ ProtectedRequest
    \/ IntrospectionAnswer
    \/ TickValidator

SpecMiddleware == InitMiddleware /\ [][NextMiddleware]_vars

(***************************************************************************)
(* SpecNonce: token stores and cookie managers encrypt                     *)
(***************************************************************************)
NonceDatas == {d \in CookieDatas : d.count = 7}

InitNonce == InitPkce

NeOthers ==
    <<now, csVars, oaVars, tvVars, mwVars, mcVars, ckVars, fnVars, tfVars, swVars>>

SaveEncrypts ==
    /\ Len(enc_log) < MaxEncryptions
    /\ \E key \in CookieKeys, data \in NonceDatas :
          NeTokenStoreEncrypt(key, to_vec(data))
    /\ UNCHANGED NeOthers

CookieEncrypts ==
    /\ Len(enc_log) < MaxEncryptions
    /\ \E key \in CookieKeys, nonce_bytes \in CookieNonces, data \in NonceDatas :
          NeCookieEncrypt(key, nonce_bytes, data)
    /\ UNCHANGED NeOthers

NextNonce ==
    \/ SaveEncrypts
    \/ CookieEncrypts

SpecNonce == InitNonce /\ [][NextNonce]_vars

(***************************************************************************)
(* SpecTokenFile: tasks of two MiroClients load and save the token file    *)
(***************************************************************************)
InitTokenFile == InitPkce

TfOthers ==
    <<now, csVars, oaVars, tvVars, mwVars, mcVars, ckVars, fnVars, neVars, swVars>>

FileCall ==
    /\ \E task \in Tasks, client \in MiroClients, op \in {"load", "save"} :
          TfCall(task, client, op)
    /\ UNCHANGED TfOthers

FileLock ==
    /\ \E task \in Tasks : TfLock(task)
    /\ UNCHANGED TfOthers

FileDone ==
    /\ \E task \in Tasks : TfDone(task)
    /\ UNCHANGED TfOthers

NextTokenFile ==
    \/ FileCall
    \/ FileLock
    \/ FileDone

SpecTokenFile == InitTokenFile /\ [][NextTokenFile]_vars

(***************************************************************************)
(* SpecSweeper: two request tasks and the cleanup task on one CodeStorage. *)
(* The clock advances in steps of half a sweep interval, and only while    *)
(* the cleanup task sleeps until its next tick: its wait for the lock and  *)
(* its scan take no time at this scale, those of the request tasks may.    *)
(* The clock stops at the last tick of the cleanup task; entries stored by *)
(* calls made before that tick, with a lifetime from the time of the call  *)
(* that ends before it, are the ones followed.  The runtime runs every task that can run and time passes     *)
(* (weak fairness); requests need not come.                                *)
(***************************************************************************)
SweepTickStep == CLEANUP_INTERVAL_SECS \div 2
LastSweepAt == (MaxSweeps - 1) * CLEANUP_INTERVAL_SECS
SweepLifetimes == {0, SweepTickStep}

InitSweeper == InitPkce

SwOthers == <<oaVars, tvVars, mwVars, mcVars, ckVars, fnVars, neVars, tfVars>>

StoreCalled ==
    /\ now < LastSweepAt
    /\ cs_seq + Cardinality({u \in Tasks : cs_task[u].pc # "idle"
                                             /\ cs_task[u].op = "store"})
          < MaxSweepStores
    /\ \E task \in Tasks, code \in Codes, lifetime \in SweepLifetimes :
          /\ now + lifetime < LastSweepAt
          /\ CtCall(task, "store", code,
                    PendingCodeExchange(code, "v1", now + lifetime))
    /\ UNCHANGED <<now, SwOthers>>

TakeCalled ==
    /\ \E task \in Tasks, code \in Codes :
          CtCall(task, "take", code, NoPendingCodeExchange)
    /\ UNCHANGED <<now, SwOthers>>

LockGranted ==
    /\ \E task \in CsTasks : CtAcquire(task)
    /\ UNCHANGED <<now, SwOthers>>

BodyRuns ==
    /\ \E task \in Tasks : CtBody(task)
    /\ UNCHANGED <<now, SwOthers>>

SweeperWakes ==
    /\ SweeperWake
    /\ UNCHANGED <<now, SwOthers>>

SweeperSweeps ==
    /\ SweeperBody
    /\ UNCHANGED <<now, SwOthers>>

SweepTick ==
    /\ cs_task[Sweeper].pc = "idle"
    /\ now < sw_next
    /\ now + SweepTickStep <= LastSweepAt
    /\ now' = now + SweepTickStep
    /\ UNCHANGED <<csVars, swVars, SwOthers>>

NextSweeper ==
    \/ StoreCalled
    \/ TakeCalled
    \/ LockGranted
    \/ BodyRuns
    \/ SweeperWakes
    \/ SweeperSweeps
    \/ SweepTick

FairSweeper ==
    /\ WF_vars(LockGranted)
    /\ WF_vars(BodyRuns)
    /\ WF_vars(SweeperWakes)
    /\ WF_vars(SweeperSweeps)
    /\ WF_vars(SweepTick)

SpecSweeper == InitSweeper /\ [][NextSweeper]_vars /\ FairSweeper

(***************************************************************************)
(* Claims about the validator cache and the upstream answers               *)
(***************************************************************************)
CacheValue(c, k) == c[LruIndex(c, k)].value

\* the cached token whose last use (insertion or cache hit) is the oldest
LeastRecentlyUsed == Head(tv_used)

\* C11: the validator cache never holds more than 100 entries (one per
\* token), and a validate_token that inserts a newly validated token into a
\* cache of 100 entries evicts exactly the entry whose last use - insertion
\* or cache hit - is the oldest, keeping the other 99 entries as they were.
C11_LruBounded ==
    /\ [](Len(cache) <= 100 /\ Cardinality(CacheKeys(cache)) = Len(cache))
    /\ [][\A task \in Tasks :
            (/\ tv_pc[task] = "waiting"
             /\ tv_pc'[task] = "idle"
             /\ tv_result'[task].ok
             /\ Len(cache) = 100
             /\ tv_token[task] \notin CacheKeys(cache))
            => /\ CacheKeys(cache') =
                     (CacheKeys(cache) \ {LeastRecentlyUsed}) \cup {tv_token[task]}
               /\ Len(cache') = 100
               /\ \A k \in CacheKeys(cache) \ {LeastRecentlyUsed} :
                     CacheValue(cache', k) = CacheValue(cache, k)
               /\ CacheValue(cache', tv_token[task]) = tv_result'[task].info]_vars

\* the cache was filled, its least recently used entry was then hit, and the
\* next insertion evicted the entry that had become the oldest instead
C11_Witness ==
    /\ Len(cache) = 100
    /\ Tokens \subseteq CacheKeys(cache)
    /\ Filler(FillerCount) \in CacheKeys(cache)
    /\ Filler(FillerCount - 1) \notin CacheKeys(cache)
    /\ \A t \in Tasks : tv_pc[t] = "idle"

\* C12: a validate_token that went upstream returns TokenInvalid exactly when
\* the answer is a 401, returns TokenValidationFailed with the upstream status
\* in its message for every other answer outside 200..299, and returns an
\* identity only when the answer's status is in 200..299.
C12_UpstreamAnswerMapping ==
    [][\A task \in Tasks, answer \in IntrospectionAnswers :
          ValidateFinish(task, answer) =>
             LET r == tv_result'[task]
                 answered == answer.kind = "response"
             IN /\ (~r.ok /\ r.error = "TokenInvalid")
                      <=> (answered /\ answer.status = 401)
                /\ (answered /\ answer.status # 401
                      /\ ~(answer.status >= 200 /\ answer.status <= 299))
                      => /\ ~r.ok
                         /\ r.error = "TokenValidationFailed"
                         /\ r.detail = <<"Miro API returned status", answer.status>>
                /\ r.ok => (answered /\ answer.status >= 200 /\ answer.status <= 299)]_vars

\* one call was answered 401 and returned TokenInvalid, another was answered
\* 403 and returned TokenValidationFailed naming that status
C12_Witness ==
    /\ tv_kinds = <<"miss", "miss">>
    /\ tv_result[1] = [ok |-> FALSE, error |-> "TokenInvalid", detail |-> <<>>,
                       info |-> NoUserInfo]
    /\ tv_result[2] = [ok |-> FALSE, error |-> "TokenValidationFailed",
                       detail |-> <<"Miro API returned status", 403>>,
                       info |-> NoUserInfo]
    /\ cache = <<>>

(***************************************************************************)
(* Claims about the middleware of protected routes                         *)
(***************************************************************************)
WellFormedBearer == {BearerHeader(t) : t \in Tokens}

\* C13: a request to a protected route whose Authorization: Bearer header is
\* missing or malformed is answered 401 with a WWW-Authenticate header that
\* names the Bearer scheme and the realm, and the validator is not called;
\* a request whose validation returned TokenInvalid or TokenValidationFailed
\* is answered 401 with error="invalid_token" in WWW-Authenticate; in both
\* cases the downstream handler is not invoked.
C13_UnauthenticatedRejected ==
    /\ [][\A task \in Tasks, header \in MwHeaders \ WellFormedBearer :
            MwRequest(task, header)
            => /\ mw_out'[task].resp.status = 401
               /\ Len(mw_out'[task].resp.www_authenticate) >= 2
               /\ mw_out'[task].resp.www_authenticate[1] = "Bearer"
               /\ mw_out'[task].resp.www_authenticate[2] = "realm=\"miro-mcp-server\""
               /\ mw_out'[task].ctx = None
               /\ mw_calls' = mw_calls
               /\ tvVars' = tvVars]_vars
    /\ [][\A task \in Tasks :
            (/\ tv_pc[task] = "waiting"
             /\ tv_pc'[task] = "idle"
             /\ tv_result'[task].error \in {"TokenInvalid", "TokenValidationFailed"})
            => /\ mw_out'[task].resp.status = 401
               /\ \E i \in DOMAIN mw_out'[task].resp.www_authenticate :
                     mw_out'[task].resp.www_authenticate[i] = "error=\"invalid_token\""
               /\ mw_out'[task].resp.www_authenticate[1] = "Bearer"
               /\ mw_out'[task].ctx = None
               /\ mw_calls' = mw_calls]_vars

\* one request without a header and one with a token upstream rejected were
\* both answered 401, and no handler has run
C13_Witness ==
    /\ mw_req[1] = None
    /\ mw_out[1] = Rejected(<<"Bearer", "realm=\"miro-mcp-server\"">>)
    /\ mw_req[2] = BearerHeader("tokA")
    /\ tv_result[2].error = "TokenInvalid"
    /\ mw_out[2].resp.status = 401
    /\ mw_calls = 0
    /\ mw_n = 2

\* the handler ran for this task's request in this step
C14_Post(task) ==
    /\ tv_result'[task].ok
    /\ mw_req'[task] = BearerHeader(tv_token'[task])
    /\ \/ tv_pc[task] = "waiting" /\ tv_pc'[task] = "idle"
       \/ Len(tv_kinds') = Len(tv_kinds) + 1 /\ tv_kinds'[Len(tv_kinds')] = "hit"
    /\ mw_out'[task].ctx =
          Some([token |-> tv_token'[task], user_info |-> tv_result'[task].info])
    /\ mw_calls' = mw_calls + 1

\* C14: the downstream handler is invoked only in a step in which
\* validate_token returned successfully for the token of that request's own
\* Authorization header, and the context it is given holds exactly that token
\* and the identity validate_token returned.
C14_HandlerOnlyAfterValidation ==
    /\ [][\A task \in Tasks, header \in MwHeaders :
            (MwRequest(task, header) /\ mw_calls' # mw_calls) => C14_Post(task)]_vars
    /\ [][\A task \in Tasks, answer \in IntrospectionAnswers :
            (MwAnswer(task, answer) /\ mw_calls' # mw_calls) => C14_Post(task)]_vars
    /\ [](\A task \in Tasks :
            IsSome(mw_out[task].ctx)
               => mw_req[task] = BearerHeader(Unwrap(mw_out[task].ctx).token))

\* two requests in flight together, each with its own token, each handled
\* with its own token and identity
C14_Witness ==
    /\ mw_calls = 2
    /\ tv_kinds = <<"miss", "miss">>
    /\ IsSome(mw_out[1].ctx) /\ Unwrap(mw_out[1].ctx).token = "tokA"
    /\ Unwrap(mw_out[1].ctx).user_info.user_id = "u1"
    /\ IsSome(mw_out[2].ctx) /\ Unwrap(mw_out[2].ctx).token = "tokB"
    /\ Unwrap(mw_out[2].ctx).user_info.user_id = "u2"

(***************************************************************************)
(* Claims about dynamic client registration                                *)
(***************************************************************************)
C15_UriOk(uri) ==
    \/ Len(uri) >= 2 /\ uri[1] = "https" /\ uri[2] = "://"
    \/ Len(uri) >= 3 /\ uri[1] = "http" /\ uri[2] = "://" /\ uri[3] = "localhost"

C15_Unacceptable(req) ==
    \/ req.client_name = ""
    \/ req.redirect_uris = <<>>
    \/ \E i \in DOMAIN req.redirect_uris : ~C15_UriOk(req.redirect_uris[i])

\* C15: register_handler answers 400 to a registration with an empty
\* client_name, with no redirect_uris, or with a redirect_uri that starts
\* with neither https:// nor http://localhost, and leaves the registry as it
\* was; it accepts every other registration.
C15_RegistrationValidated ==
    [][(oa_req.op = "register" /\ oa_resp = NoResponse)
         => /\ C15_Unacceptable(oa_req.params)
                  => (oa_resp'.status = 400 /\ clients' = clients)
            /\ ~C15_Unacceptable(oa_req.params)
                  => /\ oa_resp'.status = 200
                     /\ oa_resp'.client.client_id \in DOMAIN clients' \ DOMAIN clients]_vars

\* a registration with an https and a plain-http redirect_uri was answered 400
C15_Witness ==
    /\ oa_req.op = "register"
    /\ oa_req.params.client_name = "app"
    /\ oa_req.params.redirect_uris = <<HttpsUri, HttpUri>>
    /\ oa_resp.status = 400
    /\ DOMAIN clients = {"id1"}

\* the identifiers and secrets a caller may present
C16_Ids == ClientIds \cup {StaticClientId}

\* C16: validate(client_id, client_secret) is true exactly for the pairs that
\* a successful registration response gave out, and once a pair validates it
\* validates after every later step: the registered record stays as it is.
C16_ValidateIffIssued ==
    /\ [](\A id \in C16_Ids, secret \in Secrets :
            RegistryValidate(clients, id, secret)
               <=> [client_id |-> id, client_secret |-> secret] \in dcr_issued)
    /\ [][\A id \in C16_Ids, secret \in Secrets :
            RegistryValidate(clients, id, secret)
               => /\ RegistryValidate(clients', id, secret)
                  /\ clients'[id] = clients[id]]_vars

\* two clients are registered with different secrets, the second one later
\* than the first
C16_Witness ==
    /\ dcr_issued = {[client_id |-> "id1", client_secret |-> <<"s1">>],
                     [client_id |-> "id2", client_secret |-> <<"s2">>]}
    /\ RegistryValidate(clients, "id1", <<"s1">>)
    /\ ~RegistryValidate(clients, "id1", <<"s2">>)
    /\ clients["id1"].created_at < clients["id2"].created_at

\* a successful registration stored the client under the client_id it
\* generated, with the secret and the metadata it returns, and defaulted or
\* echoed grant_types and response_types
C17_StoredAndLists(req, c) ==
    /\ c.client_id \notin DOMAIN clients
    /\ c.client_id \in DOMAIN clients'
    /\ clients'[c.client_id].client_id = c.client_id
    /\ clients'[c.client_id].client_secret = c.client_secret
    /\ clients'[c.client_id].client_name = req.client_name
    /\ clients'[c.client_id].redirect_uris = req.redirect_uris
    /\ clients'[c.client_id].grant_types = c.grant_types
    /\ \A id \in DOMAIN clients : clients'[id] = clients[id]
    /\ c.grant_types = IF req.grant_types = <<>>
                       THEN <<"authorization_code">> ELSE req.grant_types
    /\ c.response_types = IF req.response_types = <<>>
                          THEN <<"code">> ELSE req.response_types

\* C17: a successful registration stores the client under the client_id it
\* generated and returns grant_types ["authorization_code"], response_types
\* ["code"] and token_endpoint_auth_method client_secret_basic where the
\* request left the field empty or absent, and the requested values otherwise.
C17_DefaultsWhenEmptyOrAbsent ==
    [][(oa_req.op = "register" /\ oa_resp = NoResponse /\ oa_resp'.status = 200)
         => LET req == oa_req.params
                c == oa_resp'.client
            IN /\ C17_StoredAndLists(req, c)
               /\ c.token_endpoint_auth_method =
                     IF req.token_endpoint_auth_method \in {None, Some("")}
                     THEN "client_secret_basic"
                     ELSE req.token_endpoint_auth_method[1]]_vars

\* C17 as amended: the same, but token_endpoint_auth_method is defaulted to
\* client_secret_basic only where the request has no such field; a value that
\* is present, the empty string included, is returned as given.
C17_RegistrationDefaults ==
    [][(oa_req.op = "register" /\ oa_resp = NoResponse /\ oa_resp'.status = 200)
         => LET req == oa_req.params
                c == oa_resp'.client
            IN /\ C17_StoredAndLists(req, c)
               /\ c.token_endpoint_auth_method =
                     IF req.token_endpoint_auth_method = None
                     THEN "client_secret_basic"
                     ELSE req.token_endpoint_auth_method[1]]_vars

\* a registration that named its response_types, left grant_types empty and
\* gave an empty authentication method was accepted
C17_Witness ==
    /\ oa_req.op = "register"
    /\ oa_req.params.grant_types = <<>>
    /\ oa_req.params.response_types = <<"token">>
    /\ oa_req.params.token_endpoint_auth_method = Some("")
    /\ oa_resp.status = 200
    /\ oa_resp.client.grant_types = <<"authorization_code">>
    /\ oa_resp.client.response_types = <<"token">>
    /\ oa_resp.client.token_endpoint_auth_method = ""
    /\ oa_resp.client.client_id \in DOMAIN clients

(***************************************************************************)
(* Claims about MiroClient                                                 *)
(***************************************************************************)
\* this step is one in which the task's get_valid_token returns: the task
\* was inside it and now is sending the request or has given up
GvReturns(task) ==
    /\ mc[task].pc \in {"gvt_load", "gvt_refresh", "gvt_save"}
    /\ mc'[task].pc \in {"resp", "idle"}

\* the token set it found stored is expired: expires_at <= now + 60
C18_Expired(g) == g.file.tokens.expires_at <= now + 60

\* it returned the stored access token, called nobody and wrote nothing
C18_StoredTokenReturned(g) ==
    /\ g.ok
    /\ g.token = g.file.tokens.access_token
    /\ g.refresh_calls = 0
    /\ g.writes = 0
    /\ ts_file' = ts_file

\* it made one refresh call with the stored refresh token, the store holds the
\* new token set when it returns, and it returns the new access token
C18_Refreshed(g) ==
    /\ g.refresh_calls = 1
    /\ IsSome(g.file.tokens.refresh_token)
    /\ g.refresh_with = g.file.tokens.refresh_token
    /\ g.writes = 1
    /\ g.new_tokens # NoTokenSet
    /\ g.written = g.new_tokens
    /\ ts_file' = FileOf(g.new_tokens)
    /\ g.ok
    /\ g.token = g.new_tokens.access_token

\* C18: get_valid_token, when the stored token set is expired (expires_at <=
\* now + 60), makes exactly one upstream refresh call with the stored refresh
\* token, saves the new token set before it returns and returns the new access
\* token; when the stored token set is not expired it returns the stored
\* access token with no upstream call and no write.
C18_RefreshWhenExpired ==
    [][\A task \in Tasks :
          (GvReturns(task) /\ StoreLoad(gv'[task].file).ok)
          => /\ C18_Expired(gv'[task]) => C18_Refreshed(gv'[task])
             /\ ~C18_Expired(gv'[task]) => C18_StoredTokenReturned(gv'[task])]_vars

\* C18 as amended: when the stored token set is expired and holds a refresh
\* token, get_valid_token makes exactly one upstream refresh call with it; if
\* that call and the save that follows succeed, the store holds the new token
\* set when it returns and it returns the new access token; if the call fails
\* it returns the error and writes nothing, if the save fails it returns the
\* error.  When the stored token set is expired and holds no refresh token it
\* returns NoToken with no upstream call and no write.  When the stored token
\* set is not expired it returns the stored access token with no upstream
\* call and no write.
C18_RefreshWhenExpiredAndPossible ==
    [][\A task \in Tasks :
          (GvReturns(task) /\ StoreLoad(gv'[task].file).ok)
          => LET g == gv'[task]
             IN /\ ~C18_Expired(g) => C18_StoredTokenReturned(g)
                /\ (C18_Expired(g) /\ g.file.tokens.refresh_token = None)
                      => /\ ~g.ok /\ g.error = "NoToken"
                         /\ g.refresh_calls = 0 /\ g.writes = 0
                         /\ ts_file' = ts_file
                /\ (C18_Expired(g) /\ g.file.tokens.refresh_token # None)
                      => /\ g.refresh_calls = 1
                         /\ g.refresh_with = g.file.tokens.refresh_token
                         /\ g.new_tokens = NoTokenSet
                               => /\ ~g.ok /\ g.error = "OAuth2Error"
                                  /\ g.writes = 0 /\ ts_file' = ts_file
                         /\ (g.new_tokens # NoTokenSet /\ g.writes = 0)
                               => ~g.ok /\ g.error = "TokenStorageError"
                         /\ (g.new_tokens # NoTokenSet /\ g.writes = 1)
                               => C18_Refreshed(g)]_vars

\* a stored token set that expires in exactly 60 seconds was refreshed with
\* its refresh token, the new one saved and returned, and a request sent
C18_Witness ==
    /\ gv[1].state = "returned"
    /\ gv[1].file = FileOf(TokenSet("at0", Some("rt0"), 60))
    /\ gv[1].refresh_calls = 1
    /\ gv[1].ok
    /\ gv[1].token = "at1"
    /\ ts_file.tokens.access_token = "at1"
    /\ mc[1].pc = "resp"
    /\ mc[1].attempt = 1

\* C19: in one MiroClient::request call the resource request is sent at most
\* twice and the upstream refresh endpoint is called at most once; a 401 on
\* the retried request is returned to the caller as an error, with no further
\* refresh or retry.
C19_SingleRefreshAndRetry ==
    /\ [](\A task \in Tasks : mc[task].sends <= 2 /\ mc[task].refreshes <= 1)
    /\ [][\A task \in Tasks :
            (mc[task].attempt = 2 /\ ExecuteRequestResponse(task, "401"))
            => /\ mc'[task].pc = "idle"
               /\ mc'[task].result = [done |-> TRUE, ok |-> FALSE,
                                      error |-> "Unauthorized"]
               /\ rf_n' = rf_n]_vars

(***************************************************************************)
(* C20: decrypting under key K what encrypt made of P under K returns P;   *)
(* decrypting it under another key fails; and decrypting a payload in      *)
(* which one byte of the nonce, the ciphertext or the tag was altered      *)
(* fails, under either key.                                                *)
(***************************************************************************)
C20_CookieRoundTrip ==
    ck.pc = "decrypted" =>
        /\ (ck.altered = "none" /\ ck.dkey = ck.key) => ck.out = CookieOk(ck.data)
        /\ (ck.altered = "none" /\ ck.dkey # ck.key) => ~ck.out.ok
        /\ ck.altered \in {"nonce", "ciphertext", "tag"} => ~ck.out.ok

C20_Witness ==
    /\ ck.pc = "decrypted"
    /\ ck.altered = "ciphertext"
    /\ ck.dkey = ck.key
    /\ ck.data.message = <<Quote>>
    /\ ck.out = CookieErr("DecryptionError")

(***************************************************************************)
(* C21: CookieManager.decrypt reports every failure as one and the same    *)
(* error value: when a decrypt fails after an earlier decrypt has failed,  *)
(* the two results are equal, whatever made each of them fail.             *)
(***************************************************************************)
C21_OneErrorValue ==
    [][(/\ ck.pc = "encrypted"
        /\ ck'.pc = "decrypted"
        /\ ck.out.error # ""
        /\ ~ck'.out.ok)
       => ck'.out = ck.out]_vars

(***************************************************************************)
(* C22: validate_pkce with method "S256" succeeds iff the challenge is     *)
(* base64url(SHA-256(verifier)), with "plain" iff verifier and challenge   *)
(* are equal, and fails for every other method; against the challenge of a *)
(* generated pair, S256 validation succeeds for the pair's verifier and    *)
(* for no other verifier.                                                  *)
(***************************************************************************)
C22_PkceValidation ==
    pk.pc = "validated" =>
        /\ pk.method = "S256" =>
               (pk.result.ok <=> pk.code_challenge = S256(pk.code_verifier))
        /\ pk.method = "plain" =>
               (pk.result.ok <=> pk.code_verifier = pk.code_challenge)
        /\ pk.method \notin {"S256", "plain"} => ~pk.result.ok
        /\ (pk.method = "S256" /\ pk.code_challenge = pk.pair.challenge) =>
               (pk.result.ok <=> pk.code_verifier = pk.pair.verifier)

C22_Witness ==
    /\ pk.pc = "validated"
    /\ pk.method = "S256"
    /\ pk.code_challenge = pk.pair.challenge
    /\ pk.code_verifier # pk.pair.verifier
    /\ pk.result = PkceErr("PKCE validation failed")

(***************************************************************************)
(* C27: TokenSet.is_expired() is true exactly when the deadline is 60      *)
(* seconds away or less (or has passed): expires_at - now <= 60.           *)
(***************************************************************************)
C27_ExpiryBuffer ==
    ex.pc = "checked" => (ex.expired <=> ex.tokens.expires_at - ex.at <= 60)

C27_Witness ==
    /\ ex.pc = "checked"
    /\ ex.tokens.expires_at - ex.at = 60
    /\ ex.expired

\* the state cookie a handled callback was given
PresentedStateCookie == Unwrap(StateCookieOf(oa_req))

CallbackSucceeded == Handled("callback") /\ oa_resp.status = 302

(***************************************************************************)
(* C23: the code in the redirect of a successful callback is a fresh one,  *)
(* not the code the upstream provider sent to the callback.                *)
(***************************************************************************)
C23_FreshCodeInRedirect ==
    CallbackSucceeded => oa_resp.location.code # Unwrap(oa_req.params.code)

(***************************************************************************)
(* C24: a successful callback answers 302 to the redirect_uri of the       *)
(* authorize request that issued the presented state cookie, with code and *)
(* state appended; the response sets the pending-code cookie and clears    *)
(* the state cookie.                                                       *)
(***************************************************************************)
C24_LocationOk ==
    /\ \E i \in oa_issued :
          /\ i.cookie = PresentedStateCookie
          /\ oa_resp.location.base = i.redirect_uri
    /\ oa_resp.location.code # ""
    /\ oa_resp.location.state = Unwrap(oa_req.params.state)

C24_SetsPendingCookie ==
    \E k \in 1..Len(oa_resp.set_cookies) :
        /\ oa_resp.set_cookies[k].name = PENDING_CODE_COOKIE_NAME
        /\ oa_resp.set_cookies[k].max_age = PENDING_CODE_MAX_AGE
        /\ DecryptOk(ServerKey, oa_resp.set_cookies[k].value, "PendingCodeExchange")

C24_ClearsStateCookie ==
    \E k \in 1..Len(oa_resp.set_cookies) :
        /\ oa_resp.set_cookies[k].name = STATE_COOKIE_NAME
        /\ oa_resp.set_cookies[k].max_age = 0

C24_CallbackRedirect ==
    CallbackSucceeded =>
        (C24_LocationOk /\ C24_SetsPendingCookie /\ C24_ClearsStateCookie)

(***************************************************************************)
(* C25: a state cookie drives at most one successful callback.             *)
(***************************************************************************)
C25_StateCookieSingleUse ==
    \A i, j \in 1..Len(oa_callbacks) :
        i # j => oa_callbacks[i] # oa_callbacks[j]

(***************************************************************************)
(* C26: a callback does not succeed with a state cookie that was issued    *)
(* more than 300 seconds earlier.                                          *)
(***************************************************************************)
C26_StaleStateCookieRejected ==
    CallbackSucceeded =>
        \A i \in oa_issued :
            i.cookie = PresentedStateCookie
                => oa_req.at - i.at <= STATE_COOKIE_MAX_AGE

(***************************************************************************)
(* C28: a token request makes at most one call to the upstream token       *)
(* endpoint, and when that call fails or is answered non-2xx the response  *)
(* is the OAuth error, without a token.                                    *)
(***************************************************************************)
UpstreamFailures == {"non2xx", "non2xx_bad_body", "net_error"}

C28_UpstreamFailureIsError ==
    Handled("token") =>
        /\ Len(upstream_log) <= 1
        /\ oa_called <=> Len(upstream_log) = 1
        /\ \A k \in 1..Len(upstream_log) :
              upstream_log[k].outcome \in UpstreamFailures
                  => /\ oa_resp.status = 400
                     /\ oa_resp.error = "OAuthError"
                     /\ oa_resp.token = NoToken

C28_Witness ==
    /\ Handled("token")
    /\ Len(upstream_log) = 1
    /\ upstream_log[1].outcome = "non2xx"
    /\ oa_resp.status = 400

(***************************************************************************)
(* C29: a successful authorize answers 302 and sets one state cookie       *)
(* (HttpOnly, Secure, SameSite=Lax, Path=/, Max-Age=300); the state in the *)
(* upstream authorization URL is the nonce inside the cookie, the          *)
(* code_challenge is the S256 challenge of the verifier inside the cookie, *)
(* and code_challenge_method is S256.                                      *)
(***************************************************************************)
C29_AuthorizeBindsCookieAndUrl ==
    (Handled("authorize") /\ oa_resp.status = 302) =>
        /\ Len(oa_resp.set_cookies) = 1
        /\ LET c == oa_resp.set_cookies[1]
               o == FromJsonOAuthState(c.value.json)
           IN /\ c.name = STATE_COOKIE_NAME
              /\ c.attrs = "HttpOnly; Secure; SameSite=Lax; Path=/"
              /\ c.max_age = 300
              /\ DecryptOk(ServerKey, c.value, "OAuthState")
              /\ oa_resp.location.base = MIRO_AUTH_ENDPOINT
              /\ oa_resp.location.state = o.state
              /\ oa_resp.location.code_challenge = S256(o.code_verifier)
              /\ oa_resp.location.code_challenge_method = "S256"

C29_Witness ==
    /\ Handled("authorize")
    /\ oa_resp.status = 302
    /\ oa_resp.location.state = "n1"
    /\ oa_resp.location.code_challenge = S256("v1")
    /\ oa_req.params.redirect_uri = "https://other/cb"

(***************************************************************************)
(* C30: a token request whose pending code exchange expired before now,    *)
(* or whose code differs from the pending code, is rejected without an     *)
(* upstream call.  As claimed: always with 401.  As it holds: with 401     *)
(* when its grant_type is authorization_code, and with 400 otherwise.      *)
(***************************************************************************)
C30_Pending == FromJsonPending(Unwrap(PendingCookieOf(oa_req)).json)

C30_Case ==
    /\ Handled("token")
    /\ IsSome(PendingCookieOf(oa_req))
    /\ DecryptOk(ServerKey, Unwrap(PendingCookieOf(oa_req)), "PendingCodeExchange")
    /\ \/ C30_Pending.expires_at < oa_req.at
       \/ oa_req.params.code # C30_Pending.code

C30_ExpiredOrMismatch401 ==
    C30_Case => (oa_resp.status = 401 /\ ~oa_called)

C30_ExpiredOrMismatchRejected ==
    C30_Case =>
        /\ ~oa_called
        /\ upstream_log = <<>>
        /\ oa_resp.token = NoToken
        /\ oa_resp.status =
              IF oa_req.params.grant_type = "authorization_code" THEN 401 ELSE 400

C30_Witness ==
    /\ C30_Case
    /\ oa_req.params.grant_type = "authorization_code"
    /\ IsValidClient(clients, oa_req.headers, oa_req.params)
    /\ oa_req.params.code = C30_Pending.code
    /\ C30_Pending.expires_at < oa_req.at
    /\ oa_resp.status = 401
    /\ oa_resp.msg = <<"Authorization code has expired">>

(***************************************************************************)
(* C31: cleanup_expired removes every entry whose expires_at is earlier    *)
(* than now and no other; the entries that are not expired stay in the map *)
(* unchanged, and stats() right afterwards counts no expired entry.        *)
(***************************************************************************)
C31_CleanupRemovesExactlyExpired ==
    [][CsCleanupExpired =>
          /\ DOMAIN store' =
                {c \in DOMAIN store : ~(store[c].pending.expires_at < now)}
          /\ \A c \in DOMAIN store' : store'[c] = store[c]
          /\ Stats(store', now)[2] = 0
          /\ Stats(store', now)[1] = Cardinality(DOMAIN store')]_vars

\* a sweep removed one entry and left another, unexpired, in the map
C31_Witness ==
    /\ cs_last.op = "cleanup"
    /\ cs_last.removed = 1
    /\ Cardinality(DOMAIN store) = 1
    /\ \A c \in DOMAIN store : store[c].pending.expires_at >= now

\* the authorize calls that issued a state cookie with the verifier that the
\* pending-code cookie `cookie` carries: the flow the presented code is of
FlowOf(cookie) ==
    {i \in oa_issued :
        FromJsonOAuthState(i.cookie.json).code_verifier
            = FromJsonPending(cookie.json).code_verifier}

(***************************************************************************)
(* C36: a token request whose redirect_uri differs from the redirect_uri   *)
(* of the authorize request that started the flow of the presented code is *)
(* rejected.                                                               *)
(***************************************************************************)
C36_RedirectUriMismatchRejected ==
    (/\ Handled("token")
     /\ IsSome(PendingCookieOf(oa_req))
     /\ DecryptOk(ServerKey, Unwrap(PendingCookieOf(oa_req)), "PendingCodeExchange")
     /\ \E i \in FlowOf(Unwrap(PendingCookieOf(oa_req))) :
           i.redirect_uri # oa_req.params.redirect_uri)
        => oa_resp.status # 200

(***************************************************************************)
(* C40: the verifier sent to the upstream token endpoint for a code is the *)
(* one the pending code exchange holds; callback put there the verifier of *)
(* the state cookie whose nonce it matched, which is the verifier the      *)
(* authorize call generated.  A code_verifier in the token request is not  *)
(* used.                                                                   *)
(***************************************************************************)
C40_VerifierFromAuthorize ==
    /\ \A k \in 1..Len(upstream_log) :
          LET e == upstream_log[k]
          IN /\ e.code_verifier = FromJsonPending(e.cookie.json).code_verifier
             /\ \E i \in FlowOf(e.cookie) :
                   /\ \E j \in 1..Len(oa_callbacks) : oa_callbacks[j] = i.cookie
                   /\ \E n \in 1..oa_n :
                         /\ VerifierSeq[n] = e.code_verifier
                         /\ StateNonceSeq[n] = FromJsonOAuthState(i.cookie.json).state
    /\ (CallbackSucceeded /\ C24_SetsPendingCookie) =>
          \A k \in 1..Len(oa_resp.set_cookies) :
              oa_resp.set_cookies[k].name = PENDING_CODE_COOKIE_NAME =>
                  /\ FromJsonPending(oa_resp.set_cookies[k].value.json).code_verifier
                        = FromJsonOAuthState(PresentedStateCookie.json).code_verifier
                  /\ FromJsonOAuthState(PresentedStateCookie.json).state
                        = Unwrap(oa_req.params.state)
    /\ (Handled("authorize") /\ oa_resp.status = 302) =>
          /\ FromJsonOAuthState(oa_resp.set_cookies[1].value.json).code_verifier
                = VerifierSeq[oa_n]
          /\ oa_resp.location.code_challenge = S256(VerifierSeq[oa_n])

\* a token request that brought a code_verifier of its own was exchanged
\* upstream with the verifier of the first authorize call
C40_Witness ==
    /\ Handled("token")
    /\ oa_resp.status = 200
    /\ oa_req.params.code_verifier = Some("v0")
    /\ Len(upstream_log) >= 1
    /\ upstream_log[Len(upstream_log)].code_verifier = VerifierSeq[1]
    /\ upstream_log[Len(upstream_log)].at = oa_req.at

(***************************************************************************)
(* C39: two get_valid_token calls that run at the same time and load the   *)
(* same expired token set do not both call the upstream refresh endpoint:  *)
(* it is called once for that token set.                                   *)
(***************************************************************************)
C39_OneRefreshForConcurrentCalls ==
    \A t, u \in Tasks :
        (/\ t # u
         /\ gv[t].state # "none"
         /\ gv[u].state # "none"
         /\ gv[t].file = gv[u].file)
            => gv[t].refresh_calls + gv[u].refresh_calls <= 1

(***************************************************************************)
(* C37: the cache lock is not held while an upstream introspection call is *)
(* in flight; a validate_token for another token that is cached and fresh, *)
(* begun while a task waits for upstream, returns the cached identity at   *)
(* once, as a cache hit, without an upstream call.                         *)
(***************************************************************************)
C37_HitDuring(t, u) ==
    (/\ t # u
     /\ tv_pc[t] = "waiting" /\ tv_pc'[t] = "waiting"
     /\ tv_pc[u] = "idle"
     /\ Len(tv_kinds') = Len(tv_kinds) + 1
     /\ tv_token'[u] # tv_token[t]
     /\ LruIndex(cache, tv_token'[u]) # 0
     /\ ~(now - cache[LruIndex(cache, tv_token'[u])].value.cached_at > TTL_SECONDS))
        => /\ tv_pc'[u] = "idle"
           /\ tv_kinds'[Len(tv_kinds')] = "hit"
           /\ tv_result'[u] = Ok(cache[LruIndex(cache, tv_token'[u])].value)
           /\ tv_upstream' = tv_upstream

C37_NoLockAcrossUpstreamCall ==
    /\ []((\E t \in Tasks : tv_pc[t] = "waiting") => tv_lock = NoHolder)
    /\ [][\A t, u \in Tasks : C37_HitDuring(t, u)]_vars

\* one task waits for the upstream answer about its token; meanwhile the
\* other task's call for the other token was a cache hit
C37_Witness ==
    \E t, u \in Tasks :
        /\ t # u
        /\ tv_pc[t] = "waiting"
        /\ tv_pc[u] = "idle"
        /\ tv_token[t] # tv_token[u]
        /\ Len(tv_kinds) = 3
        /\ tv_kinds[3] = "hit"
        /\ tv_result[u].ok
        /\ tv_upstream = 2

(***************************************************************************)
(* C38: a validate_token that ends in an error inserts nothing into the    *)
(* cache, and the token it was about is not in the cache afterwards: the   *)
(* cache holds only tokens whose most recent introspection answered 2xx.   *)
(***************************************************************************)
C38_FailedValidationLeavesTokenAbsent ==
    [][\A t \in Tasks :
          (tv_pc[t] = "waiting" /\ tv_pc'[t] = "idle" /\ ~tv_result'[t].ok)
             => /\ tv_token[t] \notin CacheKeys(cache')
                /\ cache' = cache]_vars

(***************************************************************************)
(* C35: no two encryptions under one key use the same nonce, neither in    *)
(* CookieManager.encrypt nor in TokenStore.encrypt, so that one plaintext  *)
(* encrypted twice under one key gives two different ciphertexts.          *)
(***************************************************************************)
C35_NonceNeverReused ==
    \A i, j \in 1..Len(enc_log) :
        (i < j /\ enc_log[i].key = enc_log[j].key)
            => /\ enc_log[i].nonce # enc_log[j].nonce
               /\ enc_log[i].plaintext = enc_log[j].plaintext
                     => enc_log[i].out # enc_log[j].out

(***************************************************************************)
(* C34: a save of the token file never runs at the same time as another    *)
(* save or as a load of it.                                                *)
(***************************************************************************)
C34_FileAccessSerialized ==
    \A t, u \in Tasks :
        (t # u /\ tf[t].pc = "file" /\ tf[u].pc = "file")
            => (tf[t].op = "load" /\ tf[u].op = "load")

(***************************************************************************)
(* C32: with the cleanup task running, an entry that no take removes is    *)
(* removed by a sweep after its expiry.  No entry is in the map more than  *)
(* one sweep interval after its expiry, and every entry is eventually      *)
(* gone, whether or not a store or a take is ever called again.            *)
(***************************************************************************)
InStore(sid) == \E c \in DOMAIN store : store[c].sid = sid

C33_ConcurrentStoreTakeSweep ==
    /\ [](\A i, j \in DOMAIN cs_returned :
             i # j => cs_returned[i].sid # cs_returned[j].sid)
    /\ [](\A t, u \in Tasks :
             (t # u /\ IsSome(cs_task[t].result) /\ IsSome(cs_task[u].result))
                => cs_task[t].sid # cs_task[u].sid)
    /\ [][SweeperSweeps =>
             \A c \in DOMAIN store :
                 (c \notin DOMAIN store' \/ store'[c] # store[c])
                    => store[c].pending.expires_at < now]_vars
    /\ \A t \in Tasks : (cs_task[t].pc # "idle") ~> (cs_task[t].pc = "idle")
    /\ (lk_holder = Sweeper) ~> (lk_holder = NoHolder)

\* two takes of one code overlapped: the first was handed the entry, the
\* second holds the lock and finds the code gone
C33_Witness ==
    \E t, u \in Tasks :
        /\ t # u
        /\ cs_task[t].pc = "idle"
        /\ cs_task[t].op = "take"
        /\ IsSome(cs_task[t].result)
        /\ cs_task[u].pc = "holding"
        /\ cs_task[u].op = "take"
        /\ cs_task[u].code = cs_task[t].code
        /\ u \in cs_task[t].during
        /\ cs_task[u].code \notin DOMAIN store
        /\ sw_next > 0

====
